---- MODULE Spec2Model ----
(***************************************************************************)
(* A model of plexos-coad: the schema-inferring loader and the serializer  *)
(* of coad/plexos_database.py, and the class/object/property layer of      *)
(* coad/COAD.py, over a small relational store with SQLite's column        *)
(* affinity, rowid and INTEGER PRIMARY KEY behaviour.                      *)
(***************************************************************************)
EXTENDS Integers, Sequences, FiniteSets, TLC

VARIABLES
    xml,      \* the input document: [root, ns, recs, read], recs still to be parsed
    ld,       \* load()'s locals: [tabs, forkeys]
    phase,    \* where load()/save() stand: parsing, loaded, failed, saved, reloaded
    dbcon,    \* the store behind the connection: [tabs, view, pending]
    out,      \* the document written by save()
    dbre,     \* the store obtained by loading `out` again
    coad,     \* the COAD object: [table_list, has_data_uid, cache]
    last,     \* the last public call and how it ended
    nops      \* number of public calls made so far

vars == <<xml, ld, phase, dbcon, out, dbre, coad, last, nops>>

(***************************************************************************)
(* Bounds of the model.                                                    *)
(***************************************************************************)
MaxRecs == 3      \* records in an input document of SpecLoad
MaxOps == 2       \* public calls made on the store in Spec
MaxInt == 20      \* largest integer that text is parsed to / printed from
MaxAdds == 3      \* public calls made on the store in SpecCategories

(***************************************************************************)
(* Values.  A SQLite value is NULL, an integer or a text; Python's None,   *)
(* int and str are the same three shapes.                                  *)
(***************************************************************************)
NULL == <<"null">>
IntV(n) == <<"int", n>>
TxtV(s) == <<"text", s>>
IsInt(v) == v[1] = "int"
IsTxt(v) == v[1] = "text"

Range(s) == {s[i] : i \in DOMAIN s}
SetMax(S) == CHOOSE m \in S : \A k \in S : k <= m
Perms(S) == {f \in [1..Cardinality(S) -> S] :
                \A i, j \in 1..Cardinality(S) : i # j => f[i] # f[j]}

\* str(n) of a Python int
PyStr(n) == ToString(n)

\* Text that SQLite's INTEGER affinity converts to an integer: decimal
\* numerals, also with a leading zero ("01" is 1).
NumeralValue(s) ==
    IF \E n \in 0..MaxInt : PyStr(n) = s
    THEN CHOOSE n \in 0..MaxInt : PyStr(n) = s
    ELSE IF \E n \in 0..9 : "0" \o PyStr(n) = s
    THEN CHOOSE n \in 0..9 : "0" \o PyStr(n) = s
    ELSE -1

(***************************************************************************)
(* Column and table names.  col_name.endswith('_id') and col_name[:-3]     *)
(* over the names that occur.                                              *)
(***************************************************************************)
META_TABLE == "plexos_meta"
PK_EXCEPTIONS == {"band"}

IdPrefixes ==
    {"class", "object", "category", "collection", "membership", "property",
     "data", "band", "attribute", "unit", "lang", "parent_class",
     "child_class", "parent_object", "child_object", "plexos_meta"}

EndsWithId(col) == \E p \in IdPrefixes : col = p \o "_id"
IdPrefix(col) == CHOOSE p \in IdPrefixes : col = p \o "_id"

\* the declared type of a column (lines 130-140 and 151-159, 189-198)
ColType(col) ==
    IF EndsWithId(col) THEN "INTEGER"
    ELSE IF col = "uid" THEN "INTEGER"
    ELSE "TEXT"

\* whether the column is declared PRIMARY KEY in a CREATE TABLE
IsPkCol(t, col) ==
    EndsWithId(col) /\ IdPrefix(col) = t /\ t \notin PK_EXCEPTIONS

\* sorted(tables): the names that occur, in Python's string order
NameOrder ==
    <<"attribute", "attribute_data", "band", "category", "class",
      "collection", "config", "data", "membership", "object",
      "plexos_meta", "property", "tag", "text", "unit">>
NameRank(t) == CHOOSE i \in DOMAIN NameOrder : NameOrder[i] = t
\* sorted(tables, reverse=True)
SortedDescending(S) ==
    [i \in 1..Cardinality(S) |->
        CHOOSE t \in S : Cardinality({u \in S : NameRank(u) > NameRank(t)}) = i - 1]

Sorted(S) ==
    [i \in 1..Cardinality(S) |->
        CHOOSE t \in S : Cardinality({u \in S : NameRank(u) < NameRank(t)}) = i - 1]

(***************************************************************************)
(* SQLite.  A table is [cols, pk, rows]: the declared columns in order,    *)
(* the INTEGER PRIMARY KEY column ("" when none) and the rows in rowid     *)
(* order, each a function from the column names to values.                 *)
(***************************************************************************)
Affinity(col, v) ==
    IF v = NULL THEN NULL
    ELSE IF ColType(col) = "INTEGER"
    THEN IF IsTxt(v) /\ NumeralValue(v[2]) >= 0 THEN IntV(NumeralValue(v[2])) ELSE v
    ELSE IF IsInt(v) THEN TxtV(PyStr(v[2])) ELSE v

\* column = ? with a bound parameter: the parameter takes the column's affinity
SqlEq(col, v, param) == v # NULL /\ v = Affinity(col, param)

CreateTable(t, names) ==
    [cols |-> names,
     pk |-> IF \E i \in DOMAIN names : IsPkCol(t, names[i])
            THEN t \o "_id" ELSE "",
     rows |-> <<>>]

\* an ADD COLUMN that gives the rows already there a blank string
AddColumnDefaultBlank(tab, col) ==
    [tab EXCEPT !.cols = Append(@, col),
                !.rows = [i \in DOMAIN @ |->
                            [c \in DOMAIN @[i] \cup {col} |->
                                IF c = col THEN TxtV("") ELSE @[i][c]]]]

AddColumn(tab, col) ==
    [tab EXCEPT !.cols = Append(@, col),
                !.rows = [i \in DOMAIN @ |->
                            [c \in DOMAIN @[i] \cup {col} |->
                                IF c = col THEN NULL ELSE @[i][c]]]]

RowIds(tab) == {tab.rows[i][tab.pk][2] : i \in DOMAIN tab.rows}

\* INSERT INTO t (cols of given) VALUES (...): [ok, tab]
InsertRow(tab, given) ==
    LET row0 == [c \in Range(tab.cols) |->
                    IF c \in DOMAIN given THEN Affinity(c, given[c]) ELSE NULL]
    IN  IF DOMAIN given = {} \/ ~(DOMAIN given \subseteq Range(tab.cols))
        THEN [ok |-> FALSE, tab |-> tab]
        ELSE IF tab.pk = ""
        THEN [ok |-> TRUE, tab |-> [tab EXCEPT !.rows = Append(@, row0)]]
        ELSE
          LET ids == RowIds(tab)
              key == IF row0[tab.pk] = NULL
                     THEN IntV(IF ids = {} THEN 1 ELSE SetMax(ids) + 1)
                     ELSE row0[tab.pk]
              row == [row0 EXCEPT ![tab.pk] = key]
          IN  IF ~IsInt(key) \/ key[2] \in ids
              THEN [ok |-> FALSE, tab |-> tab]
              ELSE [ok |-> TRUE,
                    tab |-> [tab EXCEPT !.rows =
                        SelectSeq(@, LAMBDA r : r[tab.pk][2] < key[2])
                        \o <<row>>
                        \o SelectSeq(@, LAMBDA r : r[tab.pk][2] > key[2])]]

(***************************************************************************)
(* plexos_database.load                                                    *)
(***************************************************************************)
NoText == "<None>"     \* el_data.text of an empty element

FieldNames(rec) == [i \in DOMAIN rec.fields |-> rec.fields[i][1]]
FieldValue(rec, i) ==
    IF rec.fields[i][2] = NoText THEN TxtV("") ELSE TxtV(rec.fields[i][2])

\* set(col_names) - set(tables[table_name])
NewCols(tabs, rec) ==
    IF rec.table \in DOMAIN tabs
    THEN Range(FieldNames(rec)) \ Range(tabs[rec.table].cols)
    ELSE {}

RECURSIVE AddColumns(_, _)
AddColumns(tab, order) ==
    IF order = <<>> THEN tab
    ELSE AddColumns(AddColumn(tab, Head(order)), Tail(order))

\* One turn of the parse loop for a table-row element; `order` is the order in
\* which the set difference new_cols is iterated.  [ok, tabs, forkeys]
LoadRecord(l, rec, order) ==
    LET t == rec.table
        names == FieldNames(rec)
        fresh == t \notin DOMAIN l.tabs
        tabs1 == IF fresh THEN (t :> CreateTable(t, names)) @@ l.tabs ELSE l.tabs
        fk1 == IF fresh
               THEN l.forkeys \o
                    [i \in DOMAIN SelectSeq(names,
                                   LAMBDA c : EndsWithId(c) /\ ~IsPkCol(t, c)) |->
                        <<t, SelectSeq(names,
                                   LAMBDA c : EndsWithId(c) /\ ~IsPkCol(t, c))[i]>>]
               ELSE l.forkeys
        tabs2 == [tabs1 EXCEPT ![t] = AddColumns(@, order)]
        fk2 == fk1 \o [i \in DOMAIN SelectSeq(order, EndsWithId) |->
                        <<t, SelectSeq(order, EndsWithId)[i]>>]
        given == [c \in Range(names) |->
                    FieldValue(rec, CHOOSE i \in DOMAIN names : names[i] = c)]
        ins == InsertRow(tabs2[t], given)
    IN  IF names = <<>>
        THEN [ok |-> FALSE, tabs |-> l.tabs, forkeys |-> l.forkeys]
        ELSE [ok |-> ins.ok,
              tabs |-> [tabs2 EXCEPT ![t] = ins.tab],
              forkeys |-> fk2]

\* forkeys_tables: the tables with a candidate foreign key whose prefix is a table
ForkeysTables(l) ==
    {l.forkeys[i][1] : i \in {j \in DOMAIN l.forkeys :
                                IdPrefix(l.forkeys[j][2]) \in DOMAIN l.tabs}}

RECURSIVE CopyRows(_, _)
\* INSERT INTO t SELECT * FROM t_todelete: [ok, tab]
CopyRows(tab, rows) ==
    IF rows = <<>> THEN [ok |-> TRUE, tab |-> tab]
    ELSE LET ins == InsertRow(tab, Head(rows))
         IN  IF ins.ok THEN CopyRows(ins.tab, Tail(rows)) ELSE ins

\* a rebuild that declares the primary key only where the old table had one
RebuildTableKeepingKey(t, old) ==
    CopyRows([CreateTable(t, old.cols) EXCEPT !.pk = old.pk], old.rows)

\* rename, create with the foreign keys, copy, drop
RebuildTable(t, old) == CopyRows(CreateTable(t, old.cols), old.rows)

MetaTable(doc) ==
    LET empty == CreateTable(META_TABLE, <<"plexos_meta_id", "name", "value">>)
        one == InsertRow(empty, [name |-> TxtV("namespace"), value |-> TxtV(doc.ns)]).tab
    IN  InsertRow(one, [name |-> TxtV("root_element"), value |-> TxtV(doc.root)]).tab

HasCol(tabs, t, c) == t \in DOMAIN tabs /\ c \in Range(tabs[t].cols)

\* the property_view definition that the loaded tables select
PropertyView(tabs) ==
    [exists |-> "data" \in DOMAIN tabs,
     tag |-> "tag" \in DOMAIN tabs,
     text |-> "text" \in DOMAIN tabs,
     band |-> "band" \in DOMAIN tabs]

\* What follows the parse loop: [ok, tabs, view]
LoadFinish(l, doc) ==
    LET rebuilt == [t \in DOMAIN l.tabs |->
                      IF t \in ForkeysTables(l)
                      THEN RebuildTable(t, l.tabs[t])
                      ELSE [ok |-> TRUE, tab |-> l.tabs[t]]]
        tabs1 == [t \in DOMAIN l.tabs |-> rebuilt[t].tab]
        tabs2 == (META_TABLE :> MetaTable(doc)) @@ tabs1
    IN  [ok |-> /\ \A t \in DOMAIN l.tabs : rebuilt[t].ok
                \* CREATE INDEX object_class_id_and_name_idx ON object (class_id, name)
                /\ HasCol(l.tabs, "object", "class_id")
                /\ HasCol(l.tabs, "object", "name"),
         tabs |-> tabs2,
         view |-> PropertyView(l.tabs)]

EmptyLoad == [tabs |-> <<>>, forkeys |-> <<>>]

RECURSIVE LoadRecords(_, _)
\* every store the parse loop can leave for the records, FAIL included:
\* a set, because the iteration order of new_cols is not fixed
LoadRecords(l, recs) ==
    IF recs = <<>> THEN {[ok |-> TRUE, tabs |-> l.tabs, forkeys |-> l.forkeys]}
    ELSE UNION {
           IF r.ok THEN LoadRecords(r, Tail(recs)) ELSE {r}
           : r \in {LoadRecord(l, Head(recs), order) :
                        order \in Perms(NewCols(l.tabs, Head(recs)))} }

\* load(source): the stores it can return; ok = FALSE when it raises
Load(doc) ==
    {IF l.ok THEN LoadFinish(l, doc) ELSE [ok |-> FALSE, tabs |-> l.tabs,
                                           view |-> PropertyView(l.tabs)]
     : l \in LoadRecords(EmptyLoad, doc.recs)}

(***************************************************************************)
(* plexos_database.save                                                    *)
(***************************************************************************)
\* the text of a sub-element: str(int), and an empty string is written as an
\* empty element, whose text the parser reports as None
ElementText(v) ==
    IF IsInt(v) THEN PyStr(v[2])
    ELSE IF v[2] = "" THEN NoText ELSE v[2]

\* a serializer that leaves out empty strings as it leaves out NULL
RowElementSkippingEmpty(t, tab, row) ==
    LET shown == SelectSeq(tab.cols, LAMBDA c : row[c] # NULL /\ row[c] # TxtV(""))
    IN  [table |-> t,
         fields |-> [i \in DOMAIN shown |-> <<shown[i], ElementText(row[shown[i]])>>]]

RowElement(t, tab, row) ==
    LET shown == SelectSeq(tab.cols, LAMBDA c : row[c] # NULL)
    IN  [table |-> t,
         fields |-> [i \in DOMAIN shown |-> <<shown[i], ElementText(row[shown[i]])>>]]

TableElements(t, tab) == [i \in DOMAIN tab.rows |-> RowElement(t, tab, tab.rows[i])]

RECURSIVE Concat(_)
Concat(ss) == IF ss = <<>> THEN <<>> ELSE Head(ss) \o Concat(Tail(ss))

MetaValue(tabs, key, default) ==
    IF META_TABLE \in DOMAIN tabs
    THEN LET hits == SelectSeq(tabs[META_TABLE].rows, LAMBDA r : r["name"] = TxtV(key))
         IN  hits[Len(hits)]["value"][2]
    ELSE default

Save(tabs) ==
    LET names == Sorted(DOMAIN tabs \ {META_TABLE})
    IN  [root |-> MetaValue(tabs, "root_element", "MasterDataSet"),
         ns |-> MetaValue(tabs, "namespace", "http://tempuri.org/MasterDataSet.xsd"),
         recs |-> Concat([i \in DOMAIN names |-> TableElements(names[i], tabs[names[i]])]),
         read |-> <<>>]

(***************************************************************************)
(* COAD.py: lookups.  A meta is the row of the object or class as selected *)
(* (a dict of column name to Python value).                                *)
(***************************************************************************)
Where(tabs, t, P(_)) == SelectSeq(tabs[t].rows, P)

\* COAD.__getitem__: the class row by name
ClassByName(tabs, cname) ==
    Where(tabs, "class", LAMBDA r : SqlEq("name", r["name"], TxtV(cname)))

\* ClassDict.__getitem__: the object row by class and name
ObjectByName(tabs, class_id, oname) ==
    Where(tabs, "object", LAMBDA r :
        /\ SqlEq("class_id", r["class_id"], class_id)
        /\ SqlEq("name", r["name"], TxtV(oname)))

\* ClassDict.__iter__ / keys(): the objects of the class of that name
ObjectByClass(tabs, cname) ==
    LET cs == ClassByName(tabs, cname)
    IN  IF cs = <<>> THEN <<>>
        ELSE Where(tabs, "object", LAMBDA r :
                SqlEq("class_id", r["class_id"], cs[1]["class_id"]))

\* get_by_hierarchy("Class.Object"), the identifier split at the dot:
\* [ok, cmeta, meta]
GetByHierarchy(tabs, id) ==
    LET cs == ClassByName(tabs, id[1])
        os == IF cs = <<>> THEN <<>> ELSE ObjectByName(tabs, cs[1]["class_id"], id[2])
    IN  IF os = <<>> THEN [ok |-> FALSE, cmeta |-> NULL, meta |-> NULL]
        ELSE [ok |-> TRUE, cmeta |-> cs[1], meta |-> os[1]]

\* get_by_class_id(...).meta['name']
ClassNameOf(tabs, class_id) ==
    Where(tabs, "class", LAMBDA r : SqlEq("class_id", r["class_id"], class_id))[1]["name"][2]

\* ClassDict.__init__: valid_properties as the sequence of its insertions,
\* [parent, name, id]; ids are converted to str (line 365)
ValidProperties(tabs, class_id) ==
    LET colls == Where(tabs, "collection", LAMBDA r :
                        SqlEq("child_class_id", r["child_class_id"], class_id))
        props(coll) == Where(tabs, "property", LAMBDA r :
                        SqlEq("collection_id", r["collection_id"], coll["collection_id"]))
    IN  Concat([i \in DOMAIN colls |->
            [j \in DOMAIN props(colls[i]) |->
                [parent |-> ClassNameOf(tabs, colls[i]["parent_class_id"]),
                 name |-> props(colls[i])[j]["name"][2],
                 id |-> TxtV(PyStr(props(colls[i])[j]["property_id"][2]))]]])

\* parent in valid_properties_by_name
HasParent(vp, parent) == \E i \in DOMAIN vp : vp[i].parent = parent
\* name in valid_properties_by_name[parent]
HasProperty(vp, parent, name) ==
    \E i \in DOMAIN vp : vp[i].parent = parent /\ vp[i].name = name
\* valid_properties_by_name[parent][name]: a later insertion replaces an earlier
PropertyId(vp, parent, name) ==
    vp[SetMax({i \in DOMAIN vp : vp[i].parent = parent /\ vp[i].name = name})].id

(***************************************************************************)
(* input_mask: 'code;"display";code;"display"'.  split(";") and            *)
(* strip('"') over the masks and tokens that occur.                        *)
(***************************************************************************)
OnOffMask == "0;\"Off\";1;\"On\""

SplitMask(mask) ==
    IF mask = OnOffMask THEN <<"0", "\"Off\"", "1", "\"On\"">> ELSE <<mask>>

StripQuotes(tok) ==
    IF tok = "\"Off\"" THEN "Off" ELSE IF tok = "\"On\"" THEN "On" ELSE tok

\* `if mask:` / `if all_data[0][1]:`
Truthy(v) == v # NULL /\ v # TxtV("")

\* a get_mask_value that passes on a value it does not find in the mask
GetMaskValueLenient(value, mask) ==
    IF Truthy(mask)
    THEN LET toks == SplitMask(mask[2])
             hits == {i \in 1..(Len(toks) \div 2) :
                        TxtV(StripQuotes(toks[2 * i])) = value}
         IN  IF hits = {} THEN [ok |-> TRUE, value |-> value]
             ELSE [ok |-> TRUE, value |-> TxtV(toks[2 * (CHOOSE i \in hits : \A k \in hits : i <= k) - 1])]
    ELSE [ok |-> TRUE, value |-> value]

\* set_property.get_mask_value: [ok, value]
GetMaskValue(value, mask) ==
    IF Truthy(mask)
    THEN LET toks == SplitMask(mask[2])
             hits == {i \in 1..(Len(toks) \div 2) :
                        TxtV(StripQuotes(toks[2 * i])) = value}
         IN  IF hits = {} THEN [ok |-> FALSE, value |-> value]
             ELSE [ok |-> TRUE, value |-> TxtV(toks[2 * (CHOOSE i \in hits : \A k \in hits : i <= k) - 1])]
    ELSE [ok |-> TRUE, value |-> value]

\* get_property's valdict and valmap
ValMap(mask, val) ==
    IF Truthy(mask) /\ val # NULL
    THEN LET toks == SplitMask(mask[2])
             hits == {i \in 1..(Len(toks) \div 2) : TxtV(toks[2 * i - 1]) = val}
         IN  IF hits = {} THEN val
             ELSE TxtV(StripQuotes(toks[2 * SetMax(hits)]))
    ELSE val

(***************************************************************************)
(* property_view (plexos_database.py lines 298-329): data joined with its  *)
(* property and membership, left-joined with tag, text and band.  A view   *)
(* row is named by the rows it joins (0: the NULL row of a left join).     *)
(***************************************************************************)
JoinIdx(tabs, on, t, data_id) ==
    IF on /\ \E i \in DOMAIN tabs[t].rows : tabs[t].rows[i]["data_id"] = data_id
    THEN {i \in DOMAIN tabs[t].rows : tabs[t].rows[i]["data_id"] = data_id}
    ELSE {0}

PropertyViewRows(tabs, view) ==
    IF ~view.exists THEN {}
    ELSE UNION {
        LET d == tabs["data"].rows[i]
            ps == Where(tabs, "property", LAMBDA r :
                        r["property_id"] # NULL /\ r["property_id"] = d["property_id"])
            ms == Where(tabs, "membership", LAMBDA r :
                        r["membership_id"] # NULL /\ r["membership_id"] = d["membership_id"])
        IN  IF ps = <<>> \/ ms = <<>> THEN {}
            ELSE {[d |-> i, tg |-> tg, tx |-> tx, bd |-> bd,
                   data_id |-> d["data_id"],
                   value |-> d["value"],
                   name |-> ps[1]["name"],
                   input_mask |-> ps[1]["input_mask"],
                   child_object_id |-> ms[1]["child_object_id"],
                   parent_object_id |-> ms[1]["parent_object_id"],
                   tag_object_id |-> IF tg = 0 THEN NULL ELSE tabs["tag"].rows[tg]["object_id"],
                   text_value |-> IF tx = 0 THEN NULL ELSE tabs["text"].rows[tx]["value"],
                   band_id |-> IF bd = 0 THEN NULL ELSE tabs["band"].rows[bd]["band_id"]] :
                    tg \in JoinIdx(tabs, view.tag, "tag", d["data_id"]),
                    tx \in JoinIdx(tabs, view.text, "text", d["data_id"]),
                    bd \in JoinIdx(tabs, view.band, "band", d["data_id"])}
        : i \in DOMAIN tabs["data"].rows }

\* ORDER BY band_id: NULL sorts first; rows that compare equal come in any order
BandLeq(a, b) == a = NULL \/ (b # NULL /\ a[2] <= b[2])

OrderedByBand(seq) ==
    \A i, j \in DOMAIN seq : i < j => BandLeq(seq[i].band_id, seq[j].band_id)

\* a SELECT that never orders its rows
FetchUnordered(rows, byBand) == Perms(rows)

\* the answers a SELECT over `rows` can give: ordered by band_id, or in any order
Fetch(rows, byBand) == {f \in Perms(rows) : byBand => OrderedByBand(f)}

\* WHERE (child_object_id=? AND name=?) AND (parent_object_id=? OR tag_object_id=?)
MatchingViewRows(tabs, view, object_id, name, tag_id) ==
    {v \in PropertyViewRows(tabs, view) :
        /\ SqlEq("child_object_id", v.child_object_id, object_id)
        /\ SqlEq("name", v.name, TxtV(name))
        /\ \/ SqlEq("parent_object_id", v.parent_object_id, tag_id)
           \/ SqlEq("object_id", v.tag_object_id, tag_id)}

PyNone == <<"none">>
PyList(seq) == <<"list", seq>>
IsList(v) == v[1] = "list"

\* the return value of get_property for the fetched rows all_data
PropertyValue(all_data) ==
    LET mapped == [i \in DOMAIN all_data |->
                     ValMap(all_data[1].input_mask, all_data[i].value)]
    IN  IF Len(all_data) = 0 THEN PyNone
        ELSE IF Len(all_data) = 1 THEN mapped[1]
        ELSE PyList(mapped)

\* ObjectDict.get_property(name, tag): every value it can return
GetProperty(db, c, meta, name, tag_meta) ==
    IF "data" \notin c.table_list THEN {PyNone}
    ELSE {PropertyValue(all_data) :
            all_data \in Fetch(MatchingViewRows(db.tabs, db.view, meta["object_id"],
                                                name, tag_meta["object_id"]),
                               c.has_data_uid)}

\* obj.get_property(name, tag) for the objects named by two hierarchies
GetPropertyOf(db, c, self, name, tag) ==
    GetProperty(db, c, GetByHierarchy(db.tabs, self).meta, name,
                GetByHierarchy(db.tabs, tag).meta)

(***************************************************************************)
(* Writes through the connection.  st is [tabs, view, pending]: the tables *)
(* as the connection sees them, and whether a change awaits its commit.    *)
(***************************************************************************)
Exec(st, tabs) ==
    [st EXCEPT !.tabs = tabs, !.pending = st.pending \/ tabs # st.tabs]
Commit(st) == [st EXCEPT !.pending = FALSE]

UpdateWhere(tabs, t, P(_), col, v) ==
    [tabs EXCEPT ![t].rows = [i \in DOMAIN @ |->
        IF P(@[i]) THEN [@[i] EXCEPT ![col] = Affinity(col, v)] ELSE @[i]]]

DeleteWhere(tabs, t, P(_)) ==
    [tabs EXCEPT ![t].rows = SelectSeq(@, LAMBDA r : ~P(r))]

Insert(tabs, t, given) == [tabs EXCEPT ![t] = InsertRow(@, given).tab]

\* COAD.set_config: UPDATE config SET value=? WHERE element=?, then commit
SetConfig(st, key, value) ==
    Commit(Exec(st, UpdateWhere(st.tabs, "config",
                    LAMBDA r : SqlEq("element", r["element"], key), "value", value)))

\* COAD.get_config: [ok, value]
GetConfig(st, key) ==
    LET rows == Where(st.tabs, "config", LAMBDA r : SqlEq("element", r["element"], key))
    IN  IF rows = <<>> THEN [ok |-> FALSE, value |-> NULL]
        ELSE [ok |-> TRUE, value |-> rows[1]["value"]]

(***************************************************************************)
(* ObjectDict.set_property                                                 *)
(***************************************************************************)
Outcome(st, err, path, written) ==
    [tabs |-> st.tabs, pending |-> st.pending, err |-> err, path |-> path,
     written |-> written]

AsList(value) == IF IsList(value) THEN value[2] ELSE <<value>>

\* [get_mask_value(x, mask) for x in value]: [ok, values]
MaskValues(values, mask) ==
    [ok |-> \A i \in DOMAIN values : GetMaskValue(values[i], mask).ok,
     values |-> [i \in DOMAIN values |-> GetMaskValue(values[i], mask).value]]

\* SELECT MAX(data_id), MAX(CAST(uid AS INTEGER)) FROM data; None for no value
MaxOf(tabs, col) ==
    LET vs == {tabs["data"].rows[i][col][2] :
                i \in {j \in DOMAIN tabs["data"].rows : IsInt(tabs["data"].rows[j][col])}}
    IN  IF vs = {} THEN NULL ELSE IntV(SetMax(vs))

\* UPDATE property SET is_dynamic='true' / is_enabled='true' where it is not
MarkProperty(tabs, prop, prop_id, dyn, en) ==
    LET t1 == IF prop["is_dynamic"] # TxtV("true")
              THEN UpdateWhere(tabs, "property",
                     LAMBDA r : SqlEq("property_id", r["property_id"], prop_id),
                     "is_dynamic", dyn)
              ELSE tabs
    IN  IF prop["is_enabled"] # TxtV("true")
        THEN UpdateWhere(t1, "property",
                LAMBDA r : SqlEq("property_id", r["property_id"], prop_id),
                "is_enabled", en)
        ELSE t1

RECURSIVE InsertTags(_, _, _)
InsertTags(tabs, data_id, tag_ids) ==
    IF tag_ids = <<>> THEN tabs
    ELSE InsertTags(Insert(tabs, "tag", [data_id |-> data_id, object_id |-> Head(tag_ids)]),
                    data_id, Tail(tag_ids))

\* a Band row for every position, the first included
AddNewBandAlways(band) == band >= 1

\* `if band > 1`: the first value of a list gets no Band row
AddNewBand(band) == band > 1

RECURSIVE InsertData(_, _, _, _, _, _, _, _)
\* the loop `for m_value in m_values` of both insert paths
InsertData(tabs, m_values, last_data_id, last_uid, band, membership_id, prop_id, tag_ids) ==
    IF m_values = <<>> THEN tabs
    ELSE
      LET t1 == Insert(tabs, "data",
                    [data_id |-> IntV(last_data_id + 1),
                     uid |-> TxtV(PyStr(last_uid + 1)),
                     membership_id |-> membership_id,
                     value |-> Head(m_values),
                     property_id |-> prop_id])
          t2 == IF AddNewBand(band + 1)
                THEN Insert(t1, "band", [data_id |-> IntV(last_data_id + 1),
                                         band_id |-> TxtV(PyStr(band + 1))])
                ELSE t1
      IN  InsertData(InsertTags(t2, IntV(last_data_id + 1), tag_ids), Tail(m_values),
                     last_data_id + 1, last_uid + 1, band + 1,
                     membership_id, prop_id, tag_ids)

NewIds(last_data_id, n) == [i \in 1..n |-> IntV(last_data_id + i)]

\* SELECT membership_id FROM membership WHERE child_object_id=? AND parent_object_id=?
MembershipOf(tabs, child_id, parent_id) ==
    Where(tabs, "membership", LAMBDA r :
        /\ SqlEq("child_object_id", r["child_object_id"], child_id)
        /\ SqlEq("parent_object_id", r["parent_object_id"], parent_id))

PropertyRow(tabs, prop_id) ==
    Where(tabs, "property", LAMBDA r : SqlEq("property_id", r["property_id"], prop_id))[1]

\* lines 979-1012: the Tag rows of the tag object whose Data row is of this
\* property name and of this object; the first one is overwritten
TaggedData(tabs, meta, name, tag_meta) ==
    LET ptags == Where(tabs, "tag", LAMBDA r :
                    SqlEq("object_id", r["object_id"], tag_meta["object_id"]))
        data(i) == Where(tabs, "data", LAMBDA r :
                    SqlEq("data_id", r["data_id"], ptags[i]["data_id"]))
        member(i) == Where(tabs, "membership", LAMBDA r :
                  SqlEq("membership_id", r["membership_id"], data(i)[1]["membership_id"]))
        isHit(i) ==
            /\ data(i) # <<>>
            /\ PropertyRow(tabs, data(i)[1]["property_id"])["name"] = TxtV(name)
            /\ member(i) # <<>>
            /\ member(i)[1]["child_object_id"] = meta["object_id"]
    IN  [i \in {j \in DOMAIN ptags : isHit(j)} |-> data(i)[1]]

\* lines 984-996: fetchone() is None for a Tag row whose Data row is gone, and
\* for a Data row of this property name whose Membership row is gone; the
\* subscript of None raises
TaggedRaises(tabs, meta, name, tag_meta) ==
    LET ptags == Where(tabs, "tag", LAMBDA r :
                    SqlEq("object_id", r["object_id"], tag_meta["object_id"]))
        data(i) == Where(tabs, "data", LAMBDA r :
                    SqlEq("data_id", r["data_id"], ptags[i]["data_id"]))
        member(i) == Where(tabs, "membership", LAMBDA r :
                  SqlEq("membership_id", r["membership_id"], data(i)[1]["membership_id"]))
    IN  {i \in DOMAIN ptags :
            \/ data(i) = <<>>
            \/ /\ PropertyRow(tabs, data(i)[1]["property_id"])["name"] = TxtV(name)
               /\ member(i) = <<>>}

\* lines 975-1061: the tag's class declares no property for the object's class
SetPropertyTagged(st, c, meta, vp, name, value, tag_meta, data_meta) ==
    LET hits == TaggedData(st.tabs, meta, name, tag_meta)
        raises == TaggedRaises(st.tabs, meta, name, tag_meta)
    IN
    IF \E i \in raises : \A k \in DOMAIN hits : i < k
    THEN Outcome(st, TRUE, "tag_overwrite", <<>>)
    ELSE IF DOMAIN hits # {}
    THEN \* overwrite the value already set for this tag
      LET d == hits[CHOOSE i \in DOMAIN hits : \A k \in DOMAIN hits : i <= k]
          prop == PropertyRow(st.tabs, d["property_id"])
          mv == GetMaskValue(value, prop["input_mask"])
      IN  IF IsList(value) THEN Outcome(st, TRUE, "tag_overwrite", <<>>)
          ELSE IF ~mv.ok THEN Outcome(st, TRUE, "tag_overwrite", <<>>)
          ELSE
            LET t1 == MarkProperty(st.tabs, prop, d["property_id"], IntV(1), IntV(1))
                t2 == UpdateWhere(t1, "data",
                        LAMBDA r : SqlEq("data_id", r["data_id"], d["data_id"]),
                        "value", mv.value)
            IN  Outcome(Commit(Exec(st, t2)), FALSE, "tag_overwrite", <<d["data_id"]>>)
    ELSE \* add new data and tag
      IF ~HasProperty(vp, "System", name) \/ ~c.has_data_uid
      THEN Outcome(st, TRUE, "tag_insert", <<>>)
      ELSE
        LET prop_id == PropertyId(vp, "System", name)
            prop == PropertyRow(st.tabs, prop_id)
            last_data_id == MaxOf(st.tabs, "data_id")
            last_uid == MaxOf(st.tabs, "uid")
            sys == GetByHierarchy(st.tabs, <<"System", "System">>)
            member == MembershipOf(st.tabs, meta["object_id"], sys.meta["object_id"])
            mvs == MaskValues(AsList(value), prop["input_mask"])
            tag_ids == IF data_meta = NULL THEN <<tag_meta["object_id"]>>
                       ELSE <<tag_meta["object_id"], data_meta["object_id"]>>
            st1 == Exec(st, MarkProperty(st.tabs, prop, prop_id, TxtV("true"), TxtV("true")))
        IN  IF ~sys.ok \/ ~mvs.ok THEN Outcome(st, TRUE, "tag_insert", <<>>)
            ELSE IF last_data_id = NULL \/ last_uid = NULL \/ member = <<>>
            THEN Outcome(st1, TRUE, "tag_insert", <<>>)
            ELSE
              LET t2 == InsertData(st1.tabs, mvs.values, last_data_id[2], last_uid[2], 0,
                                   member[1]["membership_id"], prop_id, tag_ids)
              IN  Outcome(SetConfig(Commit(Exec(st1, t2)), TxtV("Dynamic"), TxtV("-1")),
                          FALSE, "tag_insert", NewIds(last_data_id[2], Len(mvs.values)))

\* lines 1078-1083: the Data rows of the membership and property, joined with band
NativeRows(tabs, c, membership_id, prop_id) ==
    LET ds == {i \in DOMAIN tabs["data"].rows :
                /\ SqlEq("membership_id", tabs["data"].rows[i]["membership_id"], membership_id)
                /\ SqlEq("property_id", tabs["data"].rows[i]["property_id"], prop_id)}
    IN  UNION {
          {[d |-> i, bd |-> bd, data_id |-> tabs["data"].rows[i]["data_id"],
            band_id |-> IF bd = 0 THEN NULL ELSE tabs["band"].rows[bd]["band_id"]] :
            bd \in JoinIdx(tabs, c.has_data_uid, "band", tabs["data"].rows[i]["data_id"])}
          : i \in ds}

\* ORDER BY band_id with a uid column, ORDER BY data_id without
NativeFetch(tabs, c, membership_id, prop_id) ==
    {f \in Perms(NativeRows(tabs, c, membership_id, prop_id)) :
        IF c.has_data_uid THEN OrderedByBand(f)
        ELSE \A i, j \in DOMAIN f : i < j => f[i].data_id[2] < f[j].data_id[2]}

\* an overwrite that maps every value before it updates any row
OverwriteListChecked(st, values, all_data, mask, done) ==
    LET mvs == [i \in DOMAIN values |-> GetMaskValue(values[i], mask)]
        RECURSIVE Updated(_, _)
        Updated(tabs, i) ==
            IF i > Len(values) THEN tabs
            ELSE Updated(UpdateWhere(tabs, "data",
                            LAMBDA r : SqlEq("data_id", r["data_id"], all_data[i].data_id),
                            "value", mvs[i].value), i + 1)
    IN  IF \E i \in DOMAIN mvs : ~mvs[i].ok THEN Outcome(st, TRUE, "native_list", done)
        ELSE Outcome(Commit(Exec(st, Updated(st.tabs, 1))), FALSE, "native_list",
                     [i \in DOMAIN all_data |-> all_data[i].data_id])

RECURSIVE OverwriteList(_, _, _, _, _)
\* lines 1130-1134: update and commit row by row; the first value that is not in
\* the mask raises
OverwriteList(st, values, all_data, mask, done) ==
    IF values = <<>> THEN Outcome(st, FALSE, "native_list", done)
    ELSE LET mv == GetMaskValue(Head(values), mask)
         IN  IF ~mv.ok THEN Outcome(st, TRUE, "native_list", done)
             ELSE OverwriteList(
                    Commit(Exec(st, UpdateWhere(st.tabs, "data",
                        LAMBDA r : SqlEq("data_id", r["data_id"], Head(all_data).data_id),
                        "value", mv.value))),
                    Tail(values), Tail(all_data), mask,
                    Append(done, Head(all_data).data_id))

\* a length check that lets a list shorter than the rows through
LengthMismatchLonger(value, all_data) == Len(value) > Len(all_data)

\* `if len(value) != len(all_data)`
LengthMismatch(value, all_data) == Len(value) # Len(all_data)

\* lines 1062-1134: the tag's class declares properties for the object's class
SetPropertyNative(st, c, meta, vp, name, value, tag_clsname, tag_meta, all_data) ==
    LET prop_id == PropertyId(vp, tag_clsname, name)
        prop == PropertyRow(st.tabs, prop_id)
        member == MembershipOf(st.tabs, meta["object_id"], tag_meta["object_id"])
    IN
    IF ~HasProperty(vp, tag_clsname, name) \/ member = <<>>
    THEN Outcome(st, TRUE, "native", <<>>)
    ELSE IF Len(all_data) = 0
    THEN
      LET last_data_id == MaxOf(st.tabs, "data_id")
          last_uid == MaxOf(st.tabs, "uid")
          mvs == MaskValues(AsList(value), prop["input_mask"])
          st1 == Exec(st, MarkProperty(st.tabs, prop, prop_id, TxtV("true"), TxtV("true")))
      IN  IF ~c.has_data_uid \/ ~mvs.ok THEN Outcome(st, TRUE, "native_insert", <<>>)
          ELSE IF last_data_id = NULL \/ last_uid = NULL
          THEN Outcome(st1, TRUE, "native_insert", <<>>)
          ELSE Outcome(Exec(st1, InsertData(st1.tabs, mvs.values, last_data_id[2],
                                            last_uid[2], 0, member[1]["membership_id"],
                                            prop_id, <<>>)),
                       FALSE, "native_insert", NewIds(last_data_id[2], Len(mvs.values)))
    ELSE IF Len(all_data) = 1
    THEN
      LET mv == GetMaskValue(value, prop["input_mask"])
      IN  IF IsList(value) \/ ~mv.ok THEN Outcome(st, TRUE, "native_single", <<>>)
          ELSE Outcome(Commit(Exec(st, UpdateWhere(st.tabs, "data",
                          LAMBDA r : SqlEq("data_id", r["data_id"], all_data[1].data_id),
                          "value", mv.value))),
                       FALSE, "native_single", <<all_data[1].data_id>>)
    ELSE
      IF ~IsList(value) THEN Outcome(st, TRUE, "native_list", <<>>)
      ELSE IF LengthMismatch(value[2], all_data) THEN Outcome(st, TRUE, "native_list", <<>>)
      ELSE OverwriteList(st, value[2], all_data, prop["input_mask"], <<>>)

\* the orders in which the native case can fetch all_data (<<>> alone when the
\* call does not reach that query)
AllDataChoices(st, c, meta, vp, name, tag_clsname, tag_meta) ==
    IF HasParent(vp, tag_clsname) /\ HasProperty(vp, tag_clsname, name)
       /\ MembershipOf(st.tabs, meta["object_id"], tag_meta["object_id"]) # <<>>
    THEN NativeFetch(st.tabs, c,
            MembershipOf(st.tabs, meta["object_id"], tag_meta["object_id"])[1]["membership_id"],
            PropertyId(vp, tag_clsname, name))
    ELSE {<<>>}

\* set_property(name, value, tag, data_tag) on the object self (a hierarchy);
\* data_tag is NULL for None
SetProperty(st, c, self, name, value, tag, data_tag, all_data) ==
    LET me == GetByHierarchy(st.tabs, self)
        tg == GetByHierarchy(st.tabs, tag)
        dt == IF data_tag = NULL THEN NULL ELSE GetByHierarchy(st.tabs, data_tag).meta
        vp == ValidProperties(st.tabs, me.meta["class_id"])
        tag_clsname == ClassNameOf(st.tabs, tg.meta["class_id"])
    IN  IF ~tg.ok THEN Outcome(st, TRUE, "lookup", <<>>)
        ELSE IF ~HasParent(vp, tag_clsname)
        THEN SetPropertyTagged(st, c, me.meta, vp, name, value, tg.meta, dt)
        ELSE SetPropertyNative(st, c, me.meta, vp, name, value, tag_clsname, tg.meta, all_data)

(***************************************************************************)
(* ObjectDict.delete_property, tag_property, untag_property                *)
(***************************************************************************)
RECURSIVE DeleteDataKeepingTags(_, _)
\* a deletion that leaves the tag rows of the data behind
DeleteDataKeepingTags(tabs, ids) ==
    IF ids = <<>> THEN tabs
    ELSE LET gone(t, tbs) == DeleteWhere(tbs, t,
                                LAMBDA r : SqlEq("data_id", r["data_id"], Head(ids)))
         IN  DeleteDataKeepingTags(gone("data", gone("band", gone("text", tabs))),
                                   Tail(ids))

RECURSIVE DeleteData(_, _)
DeleteData(tabs, ids) ==
    IF ids = <<>> THEN tabs
    ELSE LET gone(t, tbs) == DeleteWhere(tbs, t,
                                LAMBDA r : SqlEq("data_id", r["data_id"], Head(ids)))
         IN  DeleteData(gone("data", gone("band", gone("tag", gone("text", tabs)))),
                        Tail(ids))

\* the distinct data ids of a set of view rows, ascending
DataIds(rows) ==
    LET ids == {v.data_id[2] : v \in rows}
    IN  [i \in 1..Cardinality(ids) |->
            IntV(CHOOSE n \in ids : Cardinality({k \in ids : k < n}) = i - 1)]

DeleteProperty(st, c, self, name, tag) ==
    LET me == GetByHierarchy(st.tabs, self)
        tg == GetByHierarchy(st.tabs, tag)
        rows == MatchingViewRows(st.tabs, st.view, me.meta["object_id"], name,
                                 tg.meta["object_id"])
    IN  IF ~tg.ok THEN Outcome(st, TRUE, "lookup", <<>>)
        ELSE Outcome(Commit(Exec(st, DeleteData(st.tabs, DataIds(rows)))),
                     FALSE, "delete", DataIds(rows))

RECURSIVE TagData(_, _, _)
TagData(tabs, ids, object_id) ==
    IF ids = <<>> THEN tabs
    ELSE TagData(Insert(tabs, "tag", [data_id |-> Head(ids), object_id |-> object_id]),
                 Tail(ids), object_id)

\* a tag_property that tags every Data row of the property again
TagPropertyAgain(st, c, self, name, tag) ==
    LET me == GetByHierarchy(st.tabs, self)
        tg == GetByHierarchy(st.tabs, tag)
        rows == {v \in PropertyViewRows(st.tabs, st.view) :
                    /\ SqlEq("child_object_id", v.child_object_id, me.meta["object_id"])
                    /\ SqlEq("name", v.name, TxtV(name))}
    IN  IF ~tg.ok THEN Outcome(st, TRUE, "lookup", <<>>)
        ELSE Outcome(Commit(Exec(st, TagData(st.tabs, DataIds(rows), tg.meta["object_id"]))),
                     FALSE, "tag", DataIds(rows))

TagProperty(st, c, self, name, tag) ==
    LET me == GetByHierarchy(st.tabs, self)
        tg == GetByHierarchy(st.tabs, tag)
        view == PropertyViewRows(st.tabs, st.view)
        tagged == {v.data_id : v \in {w \in view :
                        SqlEq("object_id", w.tag_object_id, tg.meta["object_id"])}}
        rows == {v \in view :
                    /\ SqlEq("child_object_id", v.child_object_id, me.meta["object_id"])
                    /\ SqlEq("name", v.name, TxtV(name))
                    /\ v.data_id \notin tagged}
    IN  IF ~tg.ok THEN Outcome(st, TRUE, "lookup", <<>>)
        \* if tag_obj.meta['object_id'] == '1'
        ELSE IF tg.meta["object_id"] = TxtV("1") THEN Outcome(st, TRUE, "tag", <<>>)
        ELSE Outcome(Commit(Exec(st, TagData(st.tabs, DataIds(rows), tg.meta["object_id"]))),
                     FALSE, "tag", DataIds(rows))

RECURSIVE UntagData(_, _, _)
UntagData(tabs, ids, object_id) ==
    IF ids = <<>> THEN tabs
    ELSE UntagData(DeleteWhere(tabs, "tag", LAMBDA r :
                        /\ SqlEq("data_id", r["data_id"], Head(ids))
                        /\ SqlEq("object_id", r["object_id"], object_id)),
                   Tail(ids), object_id)

UntagProperty(st, c, self, name, tag) ==
    LET me == GetByHierarchy(st.tabs, self)
        tg == GetByHierarchy(st.tabs, tag)
        rows == {v \in PropertyViewRows(st.tabs, st.view) :
                    /\ SqlEq("child_object_id", v.child_object_id, me.meta["object_id"])
                    /\ SqlEq("name", v.name, TxtV(name))
                    /\ SqlEq("object_id", v.tag_object_id, tg.meta["object_id"])}
    IN  IF ~tg.ok THEN Outcome(st, TRUE, "lookup", <<>>)
        \* if tag_obj.meta['object_id'] == 1
        ELSE IF tg.meta["object_id"] = IntV(1) THEN Outcome(st, TRUE, "untag", <<>>)
        ELSE Outcome(Exec(st, UntagData(st.tabs, DataIds(rows), tg.meta["object_id"])),
                     FALSE, "untag", DataIds(rows))

(***************************************************************************)
(* ClassDict.add_category, ClassDict.new, ObjectDict.set_children          *)
(***************************************************************************)
CategoriesOf(tabs, class_id) ==
    Where(tabs, "category", LAMBDA r : SqlEq("class_id", r["class_id"], class_id))

\* get_category_id: [ok, id]; str(cur.fetchone()[0]) raises for no row
GetCategoryId(tabs, class_id, category) ==
    LET rows == SelectSeq(CategoriesOf(tabs, class_id),
                    LAMBDA r : SqlEq("name", r["name"], TxtV(category)))
    IN  IF rows = <<>> THEN [ok |-> FALSE, id |-> NULL]
        ELSE [ok |-> TRUE, id |-> TxtV(PyStr(rows[1]["category_id"][2]))]

\* an add_category whose lastrank starts at 0
AddCategoryRankFromOne(st, cmeta, name) ==
    LET cats == CategoriesOf(st.tabs, cmeta["class_id"])
        ranks == {NumeralValue(cats[i]["rank"][2]) : i \in DOMAIN cats} \cup {0}
        st1 == Commit(Exec(st, Insert(st.tabs, "category",
                    [name |-> TxtV(name),
                     rank |-> TxtV(PyStr(SetMax(ranks) + 1)),
                     class_id |-> cmeta["class_id"]])))
    IN  IF \E i \in DOMAIN cats : cats[i]["name"] = TxtV("name")
        THEN [ok |-> FALSE, st |-> st, id |-> NULL]
        ELSE [ok |-> TRUE, st |-> st1,
              id |-> GetCategoryId(st1.tabs, cmeta["class_id"], name).id]

\* add_category: [ok, st, id]
AddCategory(st, cmeta, name) ==
    LET cats == CategoriesOf(st.tabs, cmeta["class_id"])
        ranks == {NumeralValue(cats[i]["rank"][2]) : i \in DOMAIN cats} \cup {-1}
        st1 == Commit(Exec(st, Insert(st.tabs, "category",
                    [name |-> TxtV(name),
                     rank |-> TxtV(PyStr(SetMax(ranks) + 1)),
                     class_id |-> cmeta["class_id"]])))
    IN  \* if cat['name'] == 'name'
        IF \E i \in DOMAIN cats : cats[i]["name"] = TxtV("name")
        THEN [ok |-> FALSE, st |-> st, id |-> NULL]
        ELSE [ok |-> TRUE, st |-> st1,
              id |-> GetCategoryId(st1.tabs, cmeta["class_id"], name).id]

\* ObjectDict.get_collection_id(child_class_id, name=None): [ok, id]
GetCollectionId(tabs, parent_class_id, child_class_id) ==
    LET rows == Where(tabs, "collection", LAMBDA r :
                    /\ SqlEq("parent_class_id", r["parent_class_id"], parent_class_id)
                    /\ SqlEq("child_class_id", r["child_class_id"], child_class_id))
        unnamed == SelectSeq(rows, LAMBDA r : r["name"] = NULL)
    IN  IF Len(rows) = 0 THEN [ok |-> FALSE, id |-> NULL]
        ELSE IF Len(rows) > 1
        THEN IF unnamed = <<>> THEN [ok |-> FALSE, id |-> NULL]
             ELSE [ok |-> TRUE, id |-> unnamed[1]["collection_id"]]
        ELSE [ok |-> TRUE, id |-> rows[1]["collection_id"]]

\* set_children(child, replace=False) for one child: [ok, st]
SetChildren(st, parent_meta, child_meta) ==
    LET coll == GetCollectionId(st.tabs, parent_meta["class_id"], child_meta["class_id"])
        t1 == DeleteWhere(st.tabs, "membership", LAMBDA r :
                /\ SqlEq("parent_object_id", r["parent_object_id"], parent_meta["object_id"])
                /\ SqlEq("child_object_id", r["child_object_id"], child_meta["object_id"]))
        t2 == Insert(t1, "membership",
                [parent_class_id |-> parent_meta["class_id"],
                 parent_object_id |-> parent_meta["object_id"],
                 collection_id |-> coll.id,
                 child_class_id |-> child_meta["class_id"],
                 child_object_id |-> child_meta["object_id"]])
    IN  IF ~coll.ok THEN [ok |-> FALSE, st |-> st]
        ELSE [ok |-> TRUE, st |-> Commit(Exec(st, t2))]

\* set_children(child, replace) for one child: with replace, the memberships
\* of the parent with children of the child's class are deleted first
SetChildrenOf(st, parent_meta, child_meta, replace) ==
    IF replace
    THEN SetChildren(
            Exec(st, DeleteWhere(st.tabs, "membership", LAMBDA r :
                /\ SqlEq("parent_object_id", r["parent_object_id"], parent_meta["object_id"])
                /\ SqlEq("child_class_id", r["child_class_id"], child_meta["class_id"]))),
            parent_meta, child_meta)
    ELSE SetChildren(st, parent_meta, child_meta)

\* a check that looks at the first object of the class only
DuplicateNameOfFirst(tabs, class_id, name) ==
    LET os == Where(tabs, "object", LAMBDA r : SqlEq("class_id", r["class_id"], class_id))
    IN  os # <<>> /\ os[1]["name"] = TxtV(name)

\* name in list(self.keys()): the name is among SELECT name FROM object WHERE
\* class_id=?
DuplicateName(tabs, class_id, name) ==
    LET os == Where(tabs, "object", LAMBDA r : SqlEq("class_id", r["class_id"], class_id))
    IN  \E i \in DOMAIN os : os[i]["name"] = TxtV(name)

\* the values ClassDict.new gives the columns of object (object_id left out;
\* a GUID column is not part of the model's documents)
NewObjectRow(tabs, cmeta, name, catid) ==
    [k \in Range(tabs["object"].cols) \ {"object_id"} |->
        IF k = "class_id" THEN cmeta["class_id"]
        ELSE IF k = "name" THEN TxtV(name)
        ELSE IF k = "category_id" THEN catid
        ELSE TxtV("")]

\* the one element of a set of one element
Once(S) == CHOOSE x \in S : TRUE

\* ClassDict.new(name, category) on the class cname; each statement works on
\* the store the one before it left
NewObject(st, c, cname, name, category) ==
    LET cs == ClassByName(st.tabs, cname)
        cmeta == cs[1]
        got == GetCategoryId(st.tabs, cmeta["class_id"], category)
        \* newobj = self[name]; System.System.set_children(newobj, replace=False)
        Inserted(st3) ==
            LET newobj == ObjectByName(st3.tabs, cmeta["class_id"], name)[1]
                sys == GetByHierarchy(st3.tabs, <<"System", "System">>)
            IN  Once({IF ~sys.ok \/ ~kids.ok THEN Outcome(st3, TRUE, "new", <<>>)
                      ELSE Outcome(kids.st, FALSE, "new", <<newobj["object_id"]>>) :
                        kids \in {IF sys.ok THEN SetChildren(st3, sys.meta, newobj)
                                  ELSE [ok |-> FALSE, st |-> st3]}})
        \* the INSERT INTO object, the UPDATE of the class and the commit
        Categorised(cat) ==
            LET t2 == Insert(cat.st.tabs, "object",
                             NewObjectRow(cat.st.tabs, cmeta, name, cat.id))
                t3 == IF cmeta["is_enabled"] # TxtV("true")
                      THEN UpdateWhere(t2, "class",
                              LAMBDA r : SqlEq("class_id", r["class_id"], cmeta["class_id"]),
                              "is_enabled", TxtV("true"))
                      ELSE t2
            IN  Once({Inserted(st3) : st3 \in {Commit(Exec(cat.st, t3))}})
    IN  IF cs = <<>> THEN Outcome(st, TRUE, "lookup", <<>>)
        ELSE IF DuplicateName(st.tabs, cmeta["class_id"], name)
        THEN Outcome(st, TRUE, "new", <<>>)
        ELSE Once({IF ~cat.ok THEN Outcome(st, TRUE, "new", <<>>) ELSE Categorised(cat) :
                    cat \in {IF got.ok THEN [ok |-> TRUE, st |-> st, id |-> got.id]
                             ELSE AddCategory(st, cmeta, category)}})

(***************************************************************************)
(* ObjectDict.__setitem__ and __delitem__: the attributes of an object     *)
(***************************************************************************)
\* valid_attributes[key]: the attribute rows of the object's class by name
ValidAttribute(tabs, meta, key) ==
    Where(tabs, "attribute", LAMBDA r :
        /\ r["class_id"] # NULL /\ r["class_id"] = meta["class_id"]
        /\ r["name"] = TxtV(key))

SetAttribute(st, c, self, key, value) ==
    LET me == GetByHierarchy(st.tabs, self)
        attrs == ValidAttribute(st.tabs, me.meta, key)
        hit(r) == /\ SqlEq("object_id", r["object_id"], me.meta["object_id"])
                  /\ SqlEq("attribute_id", r["attribute_id"], attrs[Len(attrs)]["attribute_id"])
        t1 == UpdateWhere(st.tabs, "attribute_data", hit, "value", value)
        t2 == IF Where(st.tabs, "attribute_data", hit) = <<>>
              THEN Insert(t1, "attribute_data",
                     [object_id |-> me.meta["object_id"],
                      attribute_id |-> attrs[Len(attrs)]["attribute_id"],
                      value |-> value])
              ELSE t1
    IN  IF "attribute_data" \notin DOMAIN st.tabs \/ attrs = <<>>
        THEN Outcome(st, TRUE, "attribute", <<>>)
        ELSE Outcome(Commit(Exec(st, t2)), FALSE, "attribute", <<>>)

DeleteAttribute(st, c, self, key) ==
    LET me == GetByHierarchy(st.tabs, self)
        attrs == ValidAttribute(st.tabs, me.meta, key)
        hit(r) == /\ SqlEq("object_id", r["object_id"], me.meta["object_id"])
                  /\ SqlEq("attribute_id", r["attribute_id"], attrs[Len(attrs)]["attribute_id"])
    IN  IF "attribute_data" \notin DOMAIN st.tabs \/ attrs = <<>>
        THEN Outcome(st, TRUE, "attribute", <<>>)
        ELSE Outcome(Commit(Exec(st, DeleteWhere(st.tabs, "attribute_data", hit))),
                     \* del self.store[key] raises when the key has no value
                     Where(st.tabs, "attribute_data", hit) = <<>>, "attribute", <<>>)

(***************************************************************************)
(* ObjectDict.copy                                                         *)
(***************************************************************************)
\* the connection as the statement after a call finds it
After(st, o) == [st EXCEPT !.tabs = o.tabs, !.pending = o.pending]

\* ObjectDict.__init__: self.store, the attribute values of the object as
\* <<name, value>> in the order of the query
StoredAttributes(tabs, meta) ==
    IF "attribute_data" \notin DOMAIN tabs THEN <<>>
    ELSE
      LET ads == Where(tabs, "attribute_data", LAMBDA r :
                    SqlEq("object_id", r["object_id"], meta["object_id"]))
          named(ad) == Where(tabs, "attribute", LAMBDA a :
                    a["attribute_id"] # NULL /\ a["attribute_id"] = ad["attribute_id"])
      IN  Concat([i \in DOMAIN ads |->
                    [j \in DOMAIN named(ads[i]) |->
                        <<named(ads[i])[j]["name"][2], ads[i]["value"]>>]])

RECURSIVE CopyAttributes(_, _, _, _)
\* new_obj_dict[k] = val for every item of self.store: [ok, st]
CopyAttributes(st, c, self, attrs) ==
    IF attrs = <<>> THEN [ok |-> TRUE, st |-> st]
    ELSE Once({IF o.err THEN [ok |-> FALSE, st |-> After(st, o)]
               ELSE CopyAttributes(After(st, o), c, self, Tail(attrs)) :
                    o \in {SetAttribute(st, c, self, Head(attrs)[1], Head(attrs)[2])}})

RECURSIVE CopyMemberships(_, _, _, _)
\* INSERT INTO membership (cols[1:]) for every fetched row, with one id replaced
CopyMemberships(tabs, rows, col, new_id) ==
    IF rows = <<>> THEN tabs
    ELSE CopyMemberships(
            Insert(tabs, "membership",
                [k \in Range(Tail(tabs["membership"].cols)) |->
                    IF k = col THEN new_id ELSE Head(rows)[k]]),
            Tail(rows), col, new_id)

\* ObjectDict.copy(newname) of the object self (a hierarchy); each statement
\* works on the store the one before it left
CopyObject(st, c, self, newname) ==
    LET me == GetByHierarchy(st.tabs, self)
        row == [k \in DOMAIN me.meta \ {"object_id"} |->
                    IF k = "name" THEN TxtV(newname) ELSE me.meta[k]]
        MembershipsWhere(col, tabs) ==
            Where(tabs, "membership", LAMBDA r : SqlEq(col, r[col], me.meta["object_id"]))
        \* new_obj_dict = self.get_class()[newname] and what follows
        Inserted(st1) ==
            LET new == ObjectByName(st1.tabs, me.meta["class_id"], newname)[1]
                \* the memberships where this is the child, and the commit
                Parented(at, t2) ==
                    Outcome(Commit(Exec(at.st,
                                CopyMemberships(t2, MembershipsWhere("child_object_id", t2),
                                                "child_object_id", new["object_id"]))),
                            FALSE, "copy", <<new["object_id"]>>)
                \* the memberships where this is the parent
                Attributed(at) ==
                    IF ~at.ok THEN Outcome(at.st, TRUE, "copy", <<>>)
                    ELSE Once({Parented(at, t2) :
                            t2 \in {CopyMemberships(at.st.tabs,
                                        MembershipsWhere("parent_object_id", at.st.tabs),
                                        "parent_object_id", new["object_id"])}})
            IN  Once({Attributed(at) :
                        at \in {CopyAttributes(st1, c, <<self[1], newname>>,
                                               StoredAttributes(st.tabs, me.meta))}})
    IN  IF ~me.ok THEN Outcome(st, TRUE, "lookup", <<>>)
        \* if newname in list(self.get_class().keys())
        ELSE IF DuplicateName(st.tabs, me.meta["class_id"], newname)
        THEN Outcome(st, TRUE, "copy", <<>>)
        ELSE Once({Inserted(st1) :
                    st1 \in {Commit(Exec(st, Insert(st.tabs, "object", row)))}})

(***************************************************************************)
(* COAD.get_hierarchy_for_object_id and its cache; a hierarchy             *)
(* 'Class.Object' is the pair of the two names.                            *)
(***************************************************************************)
\* a lookup that names the first object of the class of the object
HierarchyLookupFirstOfClass(tabs, object_id) ==
    LET os == Where(tabs, "object", LAMBDA r : SqlEq("object_id", r["object_id"], object_id))
        cs == IF os = <<>> THEN <<>>
              ELSE Where(tabs, "class", LAMBDA r :
                        r["class_id"] # NULL /\ r["class_id"] = os[1]["class_id"])
    IN  IF os = <<>> \/ cs = <<>> THEN NULL
        ELSE <<cs[1]["name"][2], ObjectByClass(tabs, cs[1]["name"][2])[1]["name"][2]>>

\* SELECT o.name, c.name FROM object o INNER JOIN class c ... WHERE object_id=?
\* (NULL when fetchone() gives no row)
HierarchyLookup(tabs, object_id) ==
    LET os == Where(tabs, "object", LAMBDA r : SqlEq("object_id", r["object_id"], object_id))
        cs == IF os = <<>> THEN <<>>
              ELSE Where(tabs, "class", LAMBDA r :
                        r["class_id"] # NULL /\ r["class_id"] = os[1]["class_id"])
    IN  IF os = <<>> \/ cs = <<>> THEN NULL
        ELSE <<cs[1]["name"][2], os[1]["name"][2]>>

\* get_hierarchy_for_object_id(object_id): [ok, hier, cache]
GetHierarchyForObjectId(tabs, cache, object_id) ==
    LET key == PyStr(object_id[2])
        hier == HierarchyLookup(tabs, TxtV(key))
    IN  IF key \in DOMAIN cache THEN [ok |-> TRUE, hier |-> cache[key], cache |-> cache]
        ELSE IF hier = NULL THEN [ok |-> FALSE, hier |-> NULL, cache |-> cache]
        ELSE [ok |-> TRUE, hier |-> hier, cache |-> (key :> hier) @@ cache]

\* get_properties: the object ids whose hierarchy it asks for, the tag object
\* of a view row if it has one, else the membership parent
LookedUp(tabs, view, meta) ==
    {IF v.tag_object_id # NULL /\ v.tag_object_id # IntV(0)
     THEN v.tag_object_id ELSE v.parent_object_id :
        v \in {w \in PropertyViewRows(tabs, view) :
                    SqlEq("child_object_id", w.child_object_id, meta["object_id"])}}

\* the cache after the hierarchies of `ids` were asked for: [ok, cache]
CacheAfter(tabs, cache, ids) ==
    [ok |-> \A id \in ids : GetHierarchyForObjectId(tabs, cache, id).ok,
     cache |-> [k \in DOMAIN cache \cup
                      {PyStr(id[2]) : id \in {i \in ids :
                            GetHierarchyForObjectId(tabs, cache, i).ok}} |->
                  IF k \in DOMAIN cache THEN cache[k]
                  ELSE HierarchyLookup(tabs, TxtV(k))]]

(***************************************************************************)
(* COAD.diff_db: the tables of two stores compared row by row              *)
(***************************************************************************)
\* diff_table(table_name, cur1, cur2): [ok, schema, in1, in2]; a SELECT from a
\* table the store does not have raises, and so does ORDER BY 1,2 on a table of
\* one column; schema = FALSE is 'has different schemas'
DiffTable(table_name, a, b) ==
    LET schema1 == a[table_name].cols
        row(r) == [i \in DOMAIN schema1 |-> r[schema1[i]]]
        data1 == {row(r) : r \in Range(a[table_name].rows)}
        data2 == {row(r) : r \in Range(b[table_name].rows)}
    IN  IF table_name \notin DOMAIN a \/ table_name \notin DOMAIN b
        THEN [ok |-> FALSE, schema |-> FALSE, in1 |-> {}, in2 |-> {}]
        ELSE IF Len(schema1) < 2
        THEN [ok |-> FALSE, schema |-> FALSE, in1 |-> {}, in2 |-> {}]
        ELSE IF Range(schema1) \ Range(b[table_name].cols) # {}
        THEN [ok |-> TRUE, schema |-> FALSE, in1 |-> {}, in2 |-> {}]
        ELSE [ok |-> TRUE, schema |-> TRUE, in1 |-> data1 \ data2, in2 |-> data2 \ data1]

\* diff_db(otherfilename): diff_table for every table of set(tables) |
\* set(other_tables), in the order `order` the set is iterated in, then one
\* line per table only in the first and per table only in the second store
DiffDb(a, b, order) ==
    LET bad == {i \in DOMAIN order : ~DiffTable(order[i], a, b).ok}
        upto == IF bad = {} THEN Len(order) ELSE (CHOOSE i \in bad : \A k \in bad : i <= k) - 1
    IN  [ok |-> bad = {},
         compared |-> {order[i] : i \in 1..upto},
         removed |-> IF bad = {} THEN DOMAIN a \ DOMAIN b ELSE {},
         added |-> IF bad = {} THEN DOMAIN b \ DOMAIN a ELSE {}]

(***************************************************************************)
(* COAD.diff and ClassDict.diff: the keys reported missing and extra       *)
(***************************************************************************)
\* COAD.keys(): the class names
CoadKeys(tabs) == {tabs["class"].rows[i]["name"] : i \in DOMAIN tabs["class"].rows}

\* ClassDict.keys() of the class of that name
ClassKeys(tabs, key) == {r["name"] : r \in Range(ObjectByClass(tabs, key[2]))}

\* a diff that takes the keys both have for the extra ones
ClassDictDiffCommon(a, b, key) ==
    [missing |-> ClassKeys(a, key) \ ClassKeys(b, key),
     extra |-> ClassKeys(b, key) \cap ClassKeys(a, key)]

\* self[key].diff(other_coad[key]): the object names of its first two messages
ClassDictDiff(a, b, key) ==
    [missing |-> ClassKeys(a, key) \ ClassKeys(b, key),
     extra |-> ClassKeys(b, key) \ ClassKeys(a, key)]

\* self.diff(other_coad), self over the tables a and other_coad over b
CoadDiff(a, b) ==
    [missing |-> CoadKeys(a) \ CoadKeys(b),
     extra |-> CoadKeys(b) \ CoadKeys(a),
     classes |-> [key \in CoadKeys(a) \cap CoadKeys(b) |-> ClassDictDiff(a, b, key)]]

\* ObjectDict.diff calls get_properties for every object both stores have:
\* the object ids that self's COAD is asked the hierarchy of
DiffLookedUp(a, view, b) ==
    UNION {LookedUp(a, view, GetByHierarchy(a, <<key[2], o[2]>>).meta) :
            <<key, o>> \in UNION {{key} \X (ClassKeys(a, key) \cap ClassKeys(b, key)) :
                                    key \in CoadKeys(a) \cap CoadKeys(b)}}

(***************************************************************************)
(* Two stores are isomorphic: the same tables, the same column set per     *)
(* table and the same rows per table, with multiplicity.                   *)
(***************************************************************************)
Count(rows, r) == Cardinality({i \in DOMAIN rows : rows[i] = r})

SameRows(a, b) ==
    /\ Range(a.rows) = Range(b.rows)
    /\ \A r \in Range(a.rows) : Count(a.rows, r) = Count(b.rows, r)

Iso(a, b) ==
    /\ DOMAIN a = DOMAIN b
    /\ \A t \in DOMAIN a :
        /\ Range(a[t].cols) = Range(b[t].cols)
        /\ SameRows(a[t], b[t])

(***************************************************************************)
(* SpecLoad: load() and save() applied to small input documents.           *)
(***************************************************************************)
Rec(t, fields) == [table |-> t, fields |-> fields]

\* the table-row elements the documents of SpecLoad are made of
Menu ==
    { Rec("object", <<<<"object_id", "1">>, <<"class_id", "1">>, <<"name", "System">>>>),
      Rec("object", <<<<"class_id", "01">>, <<"name", "G1">>, <<"description", NoText>>>>),
      Rec("object", <<<<"name", "G2">>, <<"object_id", "3">>, <<"class_id", "2">>>>),
      Rec("class", <<<<"class_id", "2">>, <<"name", "Generator">>>>),
      Rec("class", <<<<"name", "System">>, <<"lang_id", "7">>>>),
      Rec("class", <<<<"name", "01">>, <<"class_id", "1">>, <<"is_enabled", "true">>>>),
      Rec("band", <<<<"band_id", "2">>, <<"data_id", "5">>>>),
      Rec("band", <<<<"data_id", "5">>>>) }

NoDoc == [root |-> "", ns |-> "", recs |-> <<>>, read |-> <<>>]
NoStore == [ok |-> FALSE, tabs |-> <<>>, view |-> PropertyView(<<>>)]
NoCoad == [table_list |-> {}, has_data_uid |-> FALSE, cache |-> <<>>]
NoCall == [op |-> "none"]

Docs ==
    {[root |-> "MasterDataSet", ns |-> "http://tempuri.org/MasterDataSet.xsd", recs |-> s,
      read |-> <<>>] :
        s \in UNION {[1..n -> Menu] : n \in 1..MaxRecs}}

InitLoad ==
    /\ xml \in Docs
    /\ ld = EmptyLoad
    /\ phase = "parsing"
    /\ dbcon = NoStore
    /\ out = NoDoc
    /\ dbre = NoStore
    /\ coad = NoCoad
    /\ last = NoCall
    /\ nops = 0

\* lines 91-171: one table-row element
ParseRecord ==
    /\ phase = "parsing"
    /\ xml.recs # <<>>
    /\ \E order \in Perms(NewCols(ld.tabs, Head(xml.recs))) :
        LET r == LoadRecord(ld, Head(xml.recs), order)
        IN  IF r.ok
            THEN /\ ld' = [tabs |-> r.tabs, forkeys |-> r.forkeys]
                 /\ xml' = [xml EXCEPT !.recs = Tail(@),
                                        !.read = Append(@, Head(xml.recs))]
                 /\ phase' = phase
            ELSE /\ phase' = "failed"
                 /\ UNCHANGED <<ld, xml>>
    /\ UNCHANGED <<dbcon, out, dbre, coad, last, nops>>

\* lines 172-334: foreign keys, indexes, metadata, views, commit
FinishLoad ==
    /\ phase = "parsing"
    /\ xml.recs = <<>>
    /\ LET r == LoadFinish(ld, xml)
       IN  IF r.ok
           THEN /\ dbcon' = r
                /\ phase' = "loaded"
           ELSE /\ phase' = "failed"
                /\ UNCHANGED dbcon
    /\ UNCHANGED <<xml, ld, out, dbre, coad, last, nops>>

SaveStore ==
    /\ phase = "loaded"
    /\ out' = Save(dbcon.tabs)
    /\ phase' = "saved"
    /\ UNCHANGED <<xml, ld, dbcon, dbre, coad, last, nops>>

Reload ==
    /\ phase = "saved"
    /\ \E r \in Load(out) : dbre' = r
    /\ phase' = "reloaded"
    /\ UNCHANGED <<xml, ld, dbcon, out, coad, last, nops>>

NextLoad == ParseRecord \/ FinishLoad \/ SaveStore \/ Reload

SpecLoad == InitLoad /\ [][NextLoad]_vars

(***************************************************************************)
(* Spec: the public calls of COAD.py made on the store that load() gives   *)
(* for a small master document.                                            *)
(***************************************************************************)
F(k, v) == <<k, v>>

MasterRecs(uid) ==
    << Rec("class", <<F("class_id", "1"), F("name", "System"), F("is_enabled", "true")>>),
       Rec("class", <<F("class_id", "2"), F("name", "Generator"), F("is_enabled", "true")>>),
       Rec("class", <<F("class_id", "3"), F("name", "Scenario"), F("is_enabled", "false")>>),
       Rec("class", <<F("class_id", "4"), F("name", "Region"), F("is_enabled", "true")>>),
       Rec("category", <<F("category_id", "1"), F("class_id", "1"), F("rank", "0"), F("name", "-")>>),
       Rec("category", <<F("category_id", "2"), F("class_id", "2"), F("rank", "0"), F("name", "-")>>),
       Rec("category", <<F("category_id", "3"), F("class_id", "3"), F("rank", "0"), F("name", "-")>>),
       Rec("category", <<F("category_id", "4"), F("class_id", "4"), F("rank", "0"), F("name", "-")>>),
       Rec("object", <<F("object_id", "1"), F("class_id", "1"), F("name", "System"), F("category_id", "1")>>),
       Rec("object", <<F("object_id", "2"), F("class_id", "2"), F("name", "G1"), F("category_id", "2")>>),
       Rec("object", <<F("object_id", "3"), F("class_id", "3"), F("name", "S1"), F("category_id", "3")>>),
       Rec("object", <<F("object_id", "4"), F("class_id", "4"), F("name", "R1"), F("category_id", "4")>>),
       Rec("collection", <<F("collection_id", "1"), F("parent_class_id", "1"),
                           F("child_class_id", "2"), F("name", "Generators")>>),
       Rec("collection", <<F("collection_id", "2"), F("parent_class_id", "1"),
                           F("child_class_id", "3"), F("name", "Scenarios")>>),
       Rec("collection", <<F("collection_id", "3"), F("parent_class_id", "1"),
                           F("child_class_id", "4"), F("name", "Regions")>>),
       Rec("collection", <<F("collection_id", "4"), F("parent_class_id", "4"),
                           F("child_class_id", "2"), F("name", "Generators")>>),
       Rec("membership", <<F("membership_id", "1"), F("parent_class_id", "1"),
                           F("parent_object_id", "1"), F("collection_id", "1"),
                           F("child_class_id", "2"), F("child_object_id", "2")>>),
       Rec("membership", <<F("membership_id", "2"), F("parent_class_id", "1"),
                           F("parent_object_id", "1"), F("collection_id", "2"),
                           F("child_class_id", "3"), F("child_object_id", "3")>>),
       Rec("membership", <<F("membership_id", "3"), F("parent_class_id", "1"),
                           F("parent_object_id", "1"), F("collection_id", "3"),
                           F("child_class_id", "4"), F("child_object_id", "4")>>),
       Rec("membership", <<F("membership_id", "4"), F("parent_class_id", "4"),
                           F("parent_object_id", "4"), F("collection_id", "4"),
                           F("child_class_id", "2"), F("child_object_id", "2")>>),
       Rec("property", <<F("property_id", "1"), F("collection_id", "1"), F("name", "Units"),
                         F("is_dynamic", "false"), F("is_enabled", "true")>>),
       Rec("property", <<F("property_id", "2"), F("collection_id", "1"), F("name", "Mode"),
                         F("input_mask", OnOffMask),
                         F("is_dynamic", "false"), F("is_enabled", "false")>>),
       Rec("property", <<F("property_id", "3"), F("collection_id", "4"), F("name", "Share"),
                         F("is_dynamic", "false"), F("is_enabled", "true")>>) >>
    \o [i \in 1..4 |->
         LET d == << <<"1", "1", "5">>, <<"4", "3", "a">>, <<"4", "3", "b">>,
                     <<"1", "2", "0">> >>[i]
             fs == <<F("data_id", PyStr(i)), F("membership_id", d[1]),
                     F("property_id", d[2]), F("value", d[3])>>
         IN  Rec("data", IF uid THEN Append(fs, F("uid", PyStr(i))) ELSE fs)]
    \o
    << Rec("band", <<F("band_id", "2"), F("data_id", "2")>>),
       Rec("tag", <<F("data_id", "4"), F("object_id", "3")>>),
       Rec("text", <<F("data_id", "1"), F("class_id", "2"), F("value", "units.csv")>>),
       Rec("config", <<F("element", "Dynamic"), F("value", "0")>>),
       Rec("attribute", <<F("attribute_id", "1"), F("class_id", "2"), F("name", "Latitude")>>),
       Rec("attribute_data", <<F("object_id", "2"), F("attribute_id", "1"), F("value", "3")>>) >>

MasterDoc(uid) ==
    [root |-> "MasterDataSet", ns |-> "http://tempuri.org/MasterDataSet.xsd",
     recs |-> MasterRecs(uid), read |-> <<>>]

\* COAD.__init__: the list of tables and whether data has a uid column
NewCoad(tabs) ==
    [table_list |-> DOMAIN tabs,
     has_data_uid |-> HasCol(tabs, "data", "uid"),
     cache |-> <<>>]

Open(store) == [ok |-> TRUE, tabs |-> store.tabs, view |-> store.view, pending |-> FALSE]

Init ==
    /\ \E uid \in BOOLEAN :
        /\ xml = MasterDoc(uid)
        /\ \E store \in Load(MasterDoc(uid)) :
            /\ store.ok
            /\ dbcon = Open(store)
            /\ coad = NewCoad(store.tabs)
    /\ ld = EmptyLoad
    /\ phase = "open"
    /\ out = NoDoc
    /\ dbre = NoStore
    /\ last = NoCall
    /\ nops = 0

\* the arguments the calls are made with
Hierarchies(tabs, cname) ==
    {<<cname, r["name"][2]>> : r \in Range(ObjectByClass(tabs, cname))}
Selves == Hierarchies(dbcon.tabs, "Generator")
Names == {"Units", "Mode", "Share"}
Values ==
    {TxtV("On"), IntV(7), PyList(<<TxtV("Off")>>),
     PyList(<<TxtV("On"), TxtV("Off")>>), PyList(<<TxtV("Off"), IntV(7)>>)}
Tags == {<<"System", "System">>, <<"Region", "R1">>, <<"Scenario", "S1">>}
\* (tag, data_tag) of set_property
TagArgs ==
    {<<t, NULL>> : t \in Tags} \cup {<<<<"Scenario", "S1">>, <<"Region", "R1">>>>}
NewNames == {"G1", "G2"}
Categories == {"-", "New"}
AttributeNames == {"Latitude", "Longitude"}
ConfigKeys == {"Dynamic", "Hide"}
ConfigValues == {TxtV("-1")}

\* the call, how it ended, and the tables it started from
Call(op, args, o) ==
    [op |-> op, args |-> args, err |-> o.err, path |-> o.path,
     written |-> o.written, before |-> dbcon.tabs]

\* the call has run: the connection holds its outcome
Done(op, args, o) ==
    /\ dbcon' = [dbcon EXCEPT !.tabs = o.tabs, !.pending = o.pending]
    /\ last' = Call(op, args, o)
    /\ nops' = nops + 1
    /\ UNCHANGED <<xml, ld, phase, out, dbre, coad>>

Conn == [tabs |-> dbcon.tabs, pending |-> dbcon.pending, view |-> dbcon.view]

DoSetProperty ==
    /\ phase = "open" /\ nops < MaxOps
    /\ \E self \in Selves, name \in Names, value \in Values, ta \in TagArgs :
        LET me == GetByHierarchy(dbcon.tabs, self)
            tg == GetByHierarchy(dbcon.tabs, ta[1])
            vp == ValidProperties(dbcon.tabs, me.meta["class_id"])
        IN  \E all_data \in AllDataChoices(Conn, coad, me.meta, vp, name,
                                ClassNameOf(dbcon.tabs, tg.meta["class_id"]), tg.meta) :
                Done("set_property",
                     [self |-> self, name |-> name, value |-> value,
                      tag |-> ta[1], data_tag |-> ta[2]],
                     SetProperty(Conn, coad, self, name, value, ta[1], ta[2], all_data))

DoDeleteProperty ==
    /\ phase = "open" /\ nops < MaxOps
    /\ \E self \in Selves, name \in Names, tag \in Tags :
        Done("delete_property", [self |-> self, name |-> name, tag |-> tag],
             DeleteProperty(Conn, coad, self, name, tag))

DoTagProperty ==
    /\ phase = "open" /\ nops < MaxOps
    /\ \E self \in Selves, name \in Names, tag \in Tags :
        Done("tag_property", [self |-> self, name |-> name, tag |-> tag],
             TagProperty(Conn, coad, self, name, tag))

DoUntagProperty ==
    /\ phase = "open" /\ nops < MaxOps
    /\ \E self \in Selves, name \in Names, tag \in Tags :
        Done("untag_property", [self |-> self, name |-> name, tag |-> tag],
             UntagProperty(Conn, coad, self, name, tag))

DoNew ==
    /\ phase = "open" /\ nops < MaxOps
    /\ \E name \in NewNames, category \in Categories :
        Done("new", [cls |-> "Generator", name |-> name, category |-> category],
             NewObject(Conn, coad, "Generator", name, category))

DoSetAttribute ==
    /\ phase = "open" /\ nops < MaxOps
    /\ \E self \in Selves, key \in AttributeNames, value \in {IntV(7)} :
        Done("set_attribute", [self |-> self, key |-> key, value |-> value],
             SetAttribute(Conn, coad, self, key, value))

DoDeleteAttribute ==
    /\ phase = "open" /\ nops < MaxOps
    /\ \E self \in Selves, key \in AttributeNames :
        Done("delete_attribute", [self |-> self, key |-> key],
             DeleteAttribute(Conn, coad, self, key))

DoGetConfig ==
    /\ phase = "open" /\ nops < MaxOps
    /\ \E key \in ConfigKeys :
        LET r == GetConfig(Conn, TxtV(key))
        IN  Done("get_config", [key |-> key, ret |-> r.value],
                 Outcome(Conn, ~r.ok, "config", <<>>))

DoSetConfig ==
    /\ phase = "open" /\ nops < MaxOps
    /\ \E key \in ConfigKeys, value \in ConfigValues :
        Done("set_config", [key |-> key, value |-> value, ret |-> value],
             Outcome(SetConfig(Conn, TxtV(key), value), FALSE, "config", <<>>))

Next ==
    \/ DoSetProperty
    \/ DoDeleteProperty
    \/ DoTagProperty
    \/ DoUntagProperty
    \/ DoNew
    \/ DoSetAttribute
    \/ DoDeleteAttribute
    \/ DoGetConfig
    \/ DoSetConfig

Spec == Init /\ [][Next]_vars

(***************************************************************************)
(* SpecObjects: objects are created and copied in a store that is compared *)
(* with a second store, and hierarchies are asked for by object id.        *)
(***************************************************************************)
\* master documents with a further class, a further object, both or neither
ExtraClass == Rec("class", <<F("class_id", "5"), F("name", "Fuel"), F("is_enabled", "true")>>)
ExtraObject ==
    Rec("object", <<F("object_id", "5"), F("class_id", "2"), F("name", "G2"),
                    F("category_id", "2")>>)

ExtraDocs ==
    {[MasterDoc(TRUE) EXCEPT !.recs = @ \o extra] :
        extra \in {<<>>, <<ExtraClass>>, <<ExtraObject>>, <<ExtraClass, ExtraObject>>}}

ObjectIds == 1..6

InitObjects ==
    /\ \E a \in ExtraDocs, b \in ExtraDocs :
        /\ xml = a
        /\ \E sa \in Load(a), sb \in Load(b) :
            /\ sa.ok /\ sb.ok
            /\ dbcon = Open(sa)
            /\ coad = NewCoad(sa.tabs)
            /\ dbre = sb
    /\ ld = EmptyLoad
    /\ phase = "open"
    /\ out = NoDoc
    /\ last = NoCall
    /\ nops = 0

DoCopy ==
    /\ phase = "open" /\ nops < MaxOps
    /\ \E self \in Selves, name \in NewNames :
        Done("copy", [cls |-> self[1], self |-> self, name |-> name],
             CopyObject(Conn, coad, self, name))

\* a call that writes nothing but may fill the cache
Asked(op, args, err, cache) ==
    /\ coad' = [coad EXCEPT !.cache = cache]
    /\ last' = Call(op, args, Outcome(Conn, err, op, <<>>))
    /\ nops' = nops + 1
    /\ UNCHANGED <<xml, ld, phase, dbcon, out, dbre>>

\* coad.diff(other) and other.diff(coad), other a COAD over the second store
DoDiff ==
    /\ phase = "open" /\ nops < MaxOps
    /\ dbre.ok
    /\ LET ca == CacheAfter(dbcon.tabs, coad.cache,
                            DiffLookedUp(dbcon.tabs, dbcon.view, dbre.tabs))
       IN  Asked("diff",
                 [ab |-> CoadDiff(dbcon.tabs, dbre.tabs),
                  ba |-> CoadDiff(dbre.tabs, dbcon.tabs)],
                 ~ca.ok, ca.cache)

DoGetHierarchy ==
    /\ phase = "open" /\ nops < MaxOps
    /\ \E id \in ObjectIds :
        LET r == GetHierarchyForObjectId(dbcon.tabs, coad.cache, IntV(id))
        IN  Asked("get_hierarchy", [object_id |-> id, ret |-> r.hier], ~r.ok, r.cache)

NextObjects ==
    \/ DoNew
    \/ DoCopy
    \/ DoDiff
    \/ DoGetHierarchy

SpecObjects == InitObjects /\ [][NextObjects]_vars

(***************************************************************************)
(* SpecOverwrite: set_property and delete_property on a store where the    *)
(* property Mode, which has an input_mask, has two Data rows.              *)
(***************************************************************************)
SecondMode(uid) ==
    << Rec("data", LET fs == <<F("data_id", "5"), F("membership_id", "1"),
                              F("property_id", "2"), F("value", "1")>>
                   IN  IF uid THEN Append(fs, F("uid", "5")) ELSE fs),
       Rec("band", <<F("band_id", "2"), F("data_id", "5")>>) >>

InitOverwrite ==
    /\ \E uid \in BOOLEAN :
        /\ xml = [MasterDoc(uid) EXCEPT !.recs = @ \o SecondMode(uid)]
        /\ \E store \in Load(xml) :
            /\ store.ok
            /\ dbcon = Open(store)
            /\ coad = NewCoad(store.tabs)
    /\ ld = EmptyLoad
    /\ phase = "open"
    /\ out = NoDoc
    /\ dbre = NoStore
    /\ last = NoCall
    /\ nops = 0

NextOverwrite ==
    \/ DoSetProperty
    \/ DoDeleteProperty

SpecOverwrite == InitOverwrite /\ [][NextOverwrite]_vars

(***************************************************************************)
(* SpecMemberships: children are set, objects created and copied, and      *)
(* properties set and deleted on the master store.                         *)
(***************************************************************************)
Parents == {<<"System", "System">>, <<"Region", "R1">>, <<"Scenario", "S1">>}

DoSetChildren ==
    /\ phase = "open" /\ nops < MaxOps
    /\ \E parent \in Parents, child \in Selves, replace \in BOOLEAN :
        \E r \in {SetChildrenOf(Conn, GetByHierarchy(dbcon.tabs, parent).meta,
                                 GetByHierarchy(dbcon.tabs, child).meta, replace)} :
            Done("set_children", [self |-> parent, child |-> child, replace |-> replace],
                 Outcome(r.st, ~r.ok, "set_children", <<>>))

NextMemberships ==
    \/ DoSetChildren
    \/ DoNew
    \/ DoCopy
    \/ DoSetProperty
    \/ DoDeleteProperty

SpecMemberships == Init /\ [][NextMemberships]_vars

(***************************************************************************)
(* SpecDiffDb: diff_db between two stores loaded from small documents that *)
(* start with an object record.                                            *)
(***************************************************************************)
DiffDocs == {d \in Docs : Len(d.recs) <= 2 /\ d.recs[1].table = "object"}

InitDiffDb ==
    /\ \E a \in DiffDocs, b \in DiffDocs :
        /\ xml = a
        /\ \E sa \in Load(a), sb \in Load(b) :
            /\ sa.ok /\ sb.ok
            /\ dbcon = Open(sa)
            /\ coad = NewCoad(sa.tabs)
            /\ dbre = sb
    /\ ld = EmptyLoad
    /\ phase = "open"
    /\ out = NoDoc
    /\ last = NoCall
    /\ nops = 0

DoDiffDb ==
    /\ phase = "open" /\ nops < 1
    /\ \E order \in Perms(DOMAIN dbcon.tabs \cup DOMAIN dbre.tabs) :
        \E r \in {DiffDb(dbcon.tabs, dbre.tabs, order)} :
            /\ last' = Call("diff_db",
                             [compared |-> r.compared, removed |-> r.removed,
                              added |-> r.added],
                             Outcome(Conn, ~r.ok, "diff_db", <<>>))
            /\ nops' = nops + 1
            /\ UNCHANGED <<xml, ld, phase, dbcon, out, dbre, coad>>

SpecDiffDb == InitDiffDb /\ [][DoDiffDb]_vars

(***************************************************************************)
(* SpecCategories: categories are added to a class that has none (Fuel)    *)
(* and to one that has one (Generator), directly and through new().        *)
(***************************************************************************)
CategoryClasses == {"Fuel", "Generator"}
CategoryNames == {"New", "name", "-"}

InitCategories ==
    /\ xml = [MasterDoc(TRUE) EXCEPT !.recs = @ \o <<ExtraClass>>]
    /\ \E store \in Load(xml) :
        /\ store.ok
        /\ dbcon = Open(store)
        /\ coad = NewCoad(store.tabs)
    /\ ld = EmptyLoad
    /\ phase = "open"
    /\ out = NoDoc
    /\ dbre = NoStore
    /\ last = NoCall
    /\ nops = 0

DoAddCategory ==
    /\ phase = "open" /\ nops < MaxAdds
    /\ \E cls \in CategoryClasses, name \in CategoryNames :
        \E r \in {AddCategory(Conn, ClassByName(dbcon.tabs, cls)[1], name)} :
            Done("add_category", [cls |-> cls, name |-> name, ret |-> r.id],
                 Outcome(r.st, ~r.ok, "add_category", <<>>))

NextCategories ==
    \/ DoAddCategory
    \/ DoNew

SpecCategories == InitCategories /\ [][NextCategories]_vars

\* C1: loading what save() wrote of a loaded store succeeds and gives a store
\* with the same tables, the same columns per table and the same rows per table.
C1_RoundTrip ==
    phase = "reloaded" => dbre.ok /\ Iso(dbre.tabs, dbcon.tabs)

\* a store was loaded from records that leave fields out, saved and loaded again
C1_Witness ==
    /\ phase = "reloaded"
    /\ dbre.ok
    /\ "object" \in DOMAIN dbcon.tabs /\ "class" \in DOMAIN dbcon.tabs
    /\ \E i \in DOMAIN dbcon.tabs["object"].rows :
        \E c \in DOMAIN dbcon.tabs["object"].rows[i] :
            dbcon.tabs["object"].rows[i][c] = TxtV("")
    /\ \E i \in DOMAIN dbcon.tabs["object"].rows :
        \E c \in DOMAIN dbcon.tabs["object"].rows[i] :
            dbcon.tabs["object"].rows[i][c] = NULL

\* C2: in every store reached by edits, every load of what save() writes
\* succeeds and gives the same tables, the same columns per table and the same
\* rows per table.
C2_RoundTripAfterEdits ==
    phase = "open" =>
        \A doc \in {Save(dbcon.tabs)} :
            \A r \in Load(doc) : r.ok /\ Iso(r.tabs, dbcon.tabs)

\* C3: right after a successful set_property(name, v, tag), get_property(name,
\* tag) on the same object returns exactly v; stated for the calls whose v is a
\* text or a list of two or more texts, in a store whose data table has a uid
\* column, and allowing any order among rows of equal band.
C3_GetAfterSet ==
    (/\ last.op = "set_property" /\ ~last.err
     /\ coad.has_data_uid
     /\ IF IsList(last.args.value)
        THEN /\ Len(last.args.value[2]) > 1
             /\ \A i \in DOMAIN last.args.value[2] : IsTxt(last.args.value[2][i])
        ELSE IsTxt(last.args.value)) =>
        last.args.value \in
            GetPropertyOf(dbcon, coad, last.args.self, last.args.name, last.args.tag)

\* C4: after set_property has set a property through the tag-override paths with
\* tag T1, get_property with any other tag T2 that tags no Data row of the
\* property returns None, and get_property with T1 returns the value set.
C4_TagScoping ==
    last.op = "set_property" /\ ~last.err
    /\ last.path \in {"tag_insert", "tag_overwrite"} =>
        /\ \A T2 \in UNION {Hierarchies(dbcon.tabs, cn) :
                                cn \in {"System", "Generator", "Scenario", "Region"}} :
            LET t2 == GetByHierarchy(dbcon.tabs, T2).meta
                me == GetByHierarchy(dbcon.tabs, last.args.self).meta
            IN  (/\ T2 # last.args.tag
                 /\ ~(\E v \in PropertyViewRows(dbcon.tabs, dbcon.view) :
                        /\ v.child_object_id = me["object_id"]
                        /\ v.name = TxtV(last.args.name)
                        /\ v.tag_object_id = t2["object_id"]))
                => GetPropertyOf(dbcon, coad, last.args.self, last.args.name, T2) = {PyNone}
        /\ GetPropertyOf(dbcon, coad, last.args.self, last.args.name, last.args.tag)
            = {last.args.value}

\* C5: when set_property is given a display value d of the input_mask of the
\* property, the Data row it writes holds the code paired with d, not d, and
\* get_property then returns d.
C5_MaskRoundTrip ==
    last.op = "set_property" /\ ~last.err /\ ~IsList(last.args.value)
    /\ last.written # <<>> =>
        LET d == last.args.value
            code == IF d = TxtV("On") THEN TxtV("1") ELSE TxtV("0")
            rows == [i \in DOMAIN last.written |->
                        Where(dbcon.tabs, "data",
                              LAMBDA r : r["data_id"] = last.written[i])[1]]
        IN  (/\ PropertyRow(dbcon.tabs, rows[1]["property_id"])["input_mask"] = TxtV(OnOffMask)
             /\ d \in {TxtV("On"), TxtV("Off")}) =>
                /\ \A i \in DOMAIN rows : rows[i]["value"] = code
                /\ GetPropertyOf(dbcon, coad, last.args.self, last.args.name,
                                 last.args.tag) = {d}

\* C6: tag_property with System.System as the tag raises and inserts no Tag row.
C6_NoSystemTag ==
    last.op = "tag_property" /\ last.args.tag = <<"System", "System">> =>
        last.err /\ dbcon.tabs["tag"] = last.before["tag"]

\* C7: when a set_property, delete_property, tag_property, untag_property or
\* ClassDict.new call has returned without error, no write is left uncommitted.
C7_Committed ==
    last.op \in {"set_property", "delete_property", "tag_property",
                 "untag_property", "new"} /\ ~last.err =>
        ~dbcon.pending

\* C8: get_config and set_config with a key that is no element of the config
\* table fail, and the config table is left as it was.
C8_UnknownKey ==
    (/\ last.op \in {"get_config", "set_config"}
     /\ ~(\E i \in DOMAIN last.before["config"].rows :
            last.before["config"].rows[i]["element"] = TxtV(last.args.key))) =>
        last.err /\ dbcon.tabs["config"] = last.before["config"]
\* what get_property is to return for the view rows `rows`: None for none,
\* the translated value for one, else the translated values in an order of
\* ascending band in which the rows without a Band row come first
InBandOrder(ret, rows) ==
    IF rows = {} THEN ret = PyNone
    ELSE IF Cardinality(rows) = 1
    THEN \E v \in rows : ret = ValMap(v.input_mask, v.value)
    ELSE \E f \in Perms(rows) :
            /\ ret = PyList([i \in DOMAIN f |-> ValMap(f[i].input_mask, f[i].value)])
            /\ \A i, j \in DOMAIN f : i < j =>
                /\ ~(f[i].band_id # NULL /\ f[j].band_id = NULL)
                /\ f[i].band_id # NULL /\ f[j].band_id # NULL
                    => f[i].band_id[2] <= f[j].band_id[2]

AllReadsInBandOrder ==
    \A self \in Selves, name \in Names, tag \in Tags :
        \A ret \in GetPropertyOf(dbcon, coad, self, name, tag) :
            InBandOrder(ret, MatchingViewRows(dbcon.tabs, dbcon.view,
                                GetByHierarchy(dbcon.tabs, self).meta["object_id"], name,
                                GetByHierarchy(dbcon.tabs, tag).meta["object_id"]))

\* C9 (as stated): get_property returns None for no matching row, the single
\* translated value for one, and else the values by ascending band with the
\* rows that have no Band row first.
C9_BandOrder == phase = "open" => AllReadsInBandOrder

\* C9 (amended): the same, in a store whose data table has a uid column.
C9_BandOrderWithUid == phase = "open" /\ coad.has_data_uid => AllReadsInBandOrder

\* reads that return None, a scalar and a list whose band order is not the
\* order of the data ids, after a list was written
C9_Witness ==
    /\ coad.has_data_uid
    /\ last.op = "set_property" /\ ~last.err /\ last.path = "native_list"
    /\ last.args.value = PyList(<<TxtV("On"), TxtV("Off")>>)
    /\ GetPropertyOf(dbcon, coad, <<"Generator", "G1">>, "Share", <<"Region", "R1">>)
        = {PyList(<<TxtV("On"), TxtV("Off")>>)}
    /\ dbcon.tabs["data"].rows[2]["value"] = TxtV("Off")
    /\ \E name \in Names :
        GetPropertyOf(dbcon, coad, <<"Generator", "G1">>, name, <<"System", "System">>)
            = {PyNone}
    /\ \E name \in Names :
        \E ret \in GetPropertyOf(dbcon, coad, <<"Generator", "G1">>, name,
                                 <<"System", "System">>) : IsTxt(ret)

\* the rows written by a native insert of a list: new Data rows of one
\* membership and property, a Band row i for position i > 1 and none for the first
NativeInsertRows ==
    LET ids == last.written
        n == Len(last.args.value[2])
        data(i) == Where(dbcon.tabs, "data", LAMBDA r : r["data_id"] = ids[i])
        bands(i) == Where(dbcon.tabs, "band", LAMBDA r : r["data_id"] = ids[i])
    IN  /\ Len(ids) = n
        /\ Len(dbcon.tabs["data"].rows) = Len(last.before["data"].rows) + n
        /\ \A i \in 1..n :
            /\ ~\E k \in DOMAIN last.before["data"].rows :
                    last.before["data"].rows[k]["data_id"] = ids[i]
            /\ Len(data(i)) = 1
            /\ data(i)[1]["membership_id"] = data(1)[1]["membership_id"]
            /\ data(i)[1]["property_id"] = data(1)[1]["property_id"]
            /\ IF i = 1 THEN bands(i) = <<>>
               ELSE Len(bands(i)) = 1 /\ bands(i)[1]["band_id"] = IntV(i)

\* str(v) of a value read back from a TEXT column
AsText(v) == IF IsInt(v) THEN TxtV(PyStr(v[2])) ELSE v

DisplayValues(mask) ==
    {TxtV(StripQuotes(SplitMask(mask[2])[2 * i])) :
        i \in 1..(Len(SplitMask(mask[2])) \div 2)}

\* the last call gave set_property, for a property with an input_mask, a value
\* or a list element that is no display value of the mask
NotInMask ==
    /\ last.op = "set_property"
    /\ \E i \in DOMAIN last.before["property"].rows :
        /\ last.before["property"].rows[i]["name"] = TxtV(last.args.name)
        /\ Truthy(last.before["property"].rows[i]["input_mask"])
        /\ \E k \in DOMAIN AsList(last.args.value) :
            AsList(last.args.value)[k]
                \notin DisplayValues(last.before["property"].rows[i]["input_mask"])

\* C11: a set_property call whose value, or one of whose list elements, is no
\* display value of the input_mask of the property raises and leaves every
\* table as it was, in the native insert, native single-row overwrite,
\* tag-override overwrite and tag-override insert paths.
C11_MaskRejected ==
    NotInMask
    /\ last.path \in {"native_insert", "native_single", "tag_overwrite", "tag_insert"} =>
        last.err /\ dbcon.tabs = last.before

\* a list with one element outside the mask was given where the tag-override
\* path had to insert, after an earlier call had changed the store
C11_Witness ==
    /\ NotInMask
    /\ last.path = "tag_insert" /\ last.err
    /\ last.args.value = PyList(<<TxtV("Off"), IntV(7)>>)
    /\ coad.has_data_uid
    /\ HasProperty(ValidProperties(dbcon.tabs, IntV(2)), "System", last.args.name)
    /\ dbcon.tabs["tag"].rows = <<>>

\* the Data rows that the native case of the last set_property call found: those
\* of the membership of the object in the tag object and of the property of
\* that name in the collection of the tag's class (<<>> outside the native case)
NativeDataBefore ==
    LET me == GetByHierarchy(last.before, last.args.self).meta
        tg == GetByHierarchy(last.before, last.args.tag).meta
        vp == ValidProperties(last.before, me["class_id"])
        cn == ClassNameOf(last.before, tg["class_id"])
        member == MembershipOf(last.before, me["object_id"], tg["object_id"])
    IN  IF HasParent(vp, cn) /\ HasProperty(vp, cn, last.args.name) /\ member # <<>>
        THEN Where(last.before, "data", LAMBDA r :
                /\ r["membership_id"] = member[1]["membership_id"]
                /\ r["property_id"] = Affinity("property_id", PropertyId(vp, cn, last.args.name)))
        ELSE <<>>

\* C12: in the native case of set_property a list given for exactly one Data
\* row, a scalar given for more than one, and a list whose length is not the
\* number of Data rows are rejected with an error, and the Data rows stay as
\* they were.
C12_ShapeRejected ==
    last.op = "set_property" =>
        \A n \in {Len(NativeDataBefore)} :
            (\/ n = 1 /\ IsList(last.args.value)
             \/ n > 1 /\ ~IsList(last.args.value)
             \/ n > 1 /\ IsList(last.args.value) /\ Len(last.args.value[2]) # n) =>
                last.err /\ dbcon.tabs["data"] = last.before["data"]

\* a list of one value was given for the two Data rows of 'Share'
C12_Witness ==
    /\ last.op = "set_property" /\ last.err /\ last.path = "native_list"
    /\ Len(NativeDataBefore) = 2
    /\ last.args.value = PyList(<<TxtV("Off")>>)
    /\ dbcon.tabs["data"] = last.before["data"]

\* the records of a table in the stream that load() has read, in their order
RecordsOf(t) == SelectSeq(xml.read, LAMBDA r : r.table = t)

\* the value a record supplies for a column, as the column's type stores it
TypedValue(rec, c) ==
    Affinity(c, FieldValue(rec, CHOOSE i \in DOMAIN rec.fields : rec.fields[i][1] = c))

\* the row holds what the record supplied and NULL in every other column
RowOfRecord(row, rec) ==
    \A c \in DOMAIN row :
        IF c \in Range(FieldNames(rec)) THEN row[c] = TypedValue(rec, c)
        ELSE row[c] = NULL

\* the same, but a primary key the record did not supply is an id of the store
RowOfRecordButKey(row, rec, pk) ==
    \A c \in DOMAIN row :
        IF c \in Range(FieldNames(rec)) THEN row[c] = TypedValue(rec, c)
        ELSE IF c = pk THEN IsInt(row[c])
        ELSE row[c] = NULL

\* the tables of the store are those of the stream, with the union of the field
\* names as columns and one row per record
ColumnsAreUnion ==
    /\ DOMAIN dbcon.tabs \ {META_TABLE} = {xml.read[i].table : i \in DOMAIN xml.read}
    /\ \A t \in DOMAIN dbcon.tabs \ {META_TABLE} :
        /\ Range(dbcon.tabs[t].cols)
            = UNION {Range(FieldNames(RecordsOf(t)[i])) : i \in DOMAIN RecordsOf(t)}
        /\ Len(dbcon.tabs[t].cols) = Cardinality(Range(dbcon.tabs[t].cols))
        /\ Len(dbcon.tabs[t].rows) = Len(RecordsOf(t))

\* C13 (as stated): after load the columns of every table are the union of the
\* field names of its records, every record has its row, and a row is NULL in
\* every column its record did not supply.
C13_SparseRows ==
    phase = "loaded" =>
        /\ ColumnsAreUnion
        /\ \A t \in DOMAIN dbcon.tabs \ {META_TABLE} :
            \E f \in Perms(DOMAIN RecordsOf(t)) :
                \A i \in DOMAIN RecordsOf(t) :
                    RowOfRecord(dbcon.tabs[t].rows[f[i]], RecordsOf(t)[i])

\* C13 (amended): the same, except that a row whose record did not supply the
\* primary key of its table holds an integer id there instead of NULL.
C13_SparseRowsButKey ==
    phase = "loaded" =>
        /\ ColumnsAreUnion
        /\ \A t \in DOMAIN dbcon.tabs \ {META_TABLE} :
            \E f \in Perms(DOMAIN RecordsOf(t)) :
                \A i \in DOMAIN RecordsOf(t) :
                    RowOfRecordButKey(dbcon.tabs[t].rows[f[i]], RecordsOf(t)[i],
                                      dbcon.tabs[t].pk)

\* a store was loaded in which a later record added a column to a table that
\* had a row, and a record left out the primary key of its table
C13_Witness ==
    /\ phase = "loaded"
    /\ \E t \in DOMAIN dbcon.tabs \ {META_TABLE} :
        \E i, j \in DOMAIN RecordsOf(t) :
            /\ i < j
            /\ ~(Range(FieldNames(RecordsOf(t)[j])) \subseteq Range(FieldNames(RecordsOf(t)[i])))
            /\ \E k \in DOMAIN dbcon.tabs[t].rows, c \in Range(dbcon.tabs[t].cols) :
                dbcon.tabs[t].rows[k][c] = NULL
    /\ \E t \in DOMAIN dbcon.tabs \ {META_TABLE} :
        /\ dbcon.tabs[t].pk # ""
        /\ \E i \in DOMAIN RecordsOf(t) :
            dbcon.tabs[t].pk \notin Range(FieldNames(RecordsOf(t)[i]))

\* C14: in the store that load returns a column is the declared PRIMARY KEY of
\* its table exactly if it is named '<table>_id' and the table is not 'band',
\* whether the first record of the table or a later one brought the column, and
\* whether or not the table was rebuilt.
C14_PrimaryKeys ==
    phase = "loaded" =>
        \A t \in DOMAIN dbcon.tabs :
            \A i \in DOMAIN dbcon.tabs[t].cols :
                dbcon.tabs[t].pk = dbcon.tabs[t].cols[i]
                    <=> (dbcon.tabs[t].cols[i] = t \o "_id" /\ t # "band")

\* a loaded store with a table whose key column came with its second record,
\* and a band table with a band_id column
C14_Witness ==
    /\ phase = "loaded"
    /\ \E t \in DOMAIN dbcon.tabs \ {META_TABLE} :
        /\ Len(RecordsOf(t)) > 1
        /\ (t \o "_id") \notin Range(FieldNames(RecordsOf(t)[1]))
        /\ (t \o "_id") \in Range(FieldNames(RecordsOf(t)[2]))
        /\ dbcon.tabs[t].pk = t \o "_id"
    /\ "band" \in DOMAIN dbcon.tabs
    /\ "band_id" \in Range(dbcon.tabs["band"].cols)
    /\ dbcon.tabs["band"].pk = ""

\* C15: after load the rows of every table, in the table's own order, are the
\* records of the table in the order of the stream, each row holding under
\* every column name the value its record gave for it.
C15_StreamOrder ==
    phase = "loaded" =>
        \A t \in DOMAIN dbcon.tabs \ {META_TABLE} :
            /\ Len(dbcon.tabs[t].rows) = Len(RecordsOf(t))
            /\ \A i \in DOMAIN RecordsOf(t) :
                \A c \in Range(FieldNames(RecordsOf(t)[i])) :
                    dbcon.tabs[t].rows[i][c] = TypedValue(RecordsOf(t)[i], c)

\* the element written for a row: a sub-element for every column that is not
\* NULL, in the order of the columns; a number as its numeral, a blank string
\* as an empty element
ElementOfRow(el, t, cols, row) ==
    /\ el.table = t
    /\ LET shown == SelectSeq(cols, LAMBDA c : row[c] # NULL)
       IN  /\ Len(el.fields) = Len(shown)
           /\ \A k \in DOMAIN shown :
                /\ el.fields[k][1] = shown[k]
                /\ el.fields[k][2] =
                    IF row[shown[k]][1] = "int" THEN ToString(row[shown[k]][2])
                    ELSE IF row[shown[k]] = TxtV("") THEN NoText
                    ELSE row[shown[k]][2]

\* the elements written for a table, in the order of the document
ElementsOf(t) == SelectSeq(out.recs, LAMBDA el : el.table = t)

\* C16: save writes the tables in the lexical order of their names, all but
\* the metadata table; the rows of a table in the table's order; the fields of
\* a row in the order of the columns, a field exactly if its value is not NULL,
\* a blank string as an empty element.
C16_SaveOrder ==
    phase = "saved" =>
        /\ \A i, j \in DOMAIN out.recs :
            i < j => NameRank(out.recs[i].table) <= NameRank(out.recs[j].table)
        /\ \A i \in DOMAIN out.recs :
            out.recs[i].table \in DOMAIN dbcon.tabs \ {META_TABLE}
        /\ \A t \in DOMAIN dbcon.tabs \ {META_TABLE} :
            /\ Len(ElementsOf(t)) = Len(dbcon.tabs[t].rows)
            /\ \A i \in DOMAIN dbcon.tabs[t].rows :
                ElementOfRow(ElementsOf(t)[i], t, dbcon.tabs[t].cols, dbcon.tabs[t].rows[i])

\* a store of two tables was saved, with a row that has a NULL and a row that
\* has a blank string
C16_Witness ==
    /\ phase = "saved"
    /\ \E i, j \in DOMAIN out.recs : out.recs[i].table # out.recs[j].table
    /\ \E i \in DOMAIN out.recs :
        \E k \in DOMAIN out.recs[i].fields : out.recs[i].fields[k][2] = NoText
    /\ \E t \in DOMAIN dbcon.tabs \ {META_TABLE} :
        \E i \in DOMAIN dbcon.tabs[t].rows :
            Len(ElementsOf(t)[i].fields) < Len(dbcon.tabs[t].cols)

\* C17: a.diff(b) reports a class name, or an object name of a class that both
\* stores have, as extra exactly if b.diff(a) reports it as missing.
C17_DiffSymmetry ==
    last.op = "diff" =>
        /\ last.args.ab.extra = last.args.ba.missing
        /\ last.args.ab.missing = last.args.ba.extra
        /\ DOMAIN last.args.ab.classes = DOMAIN last.args.ba.classes
        /\ \A key \in DOMAIN last.args.ab.classes :
            /\ last.args.ab.classes[key].extra = last.args.ba.classes[key].missing
            /\ last.args.ab.classes[key].missing = last.args.ba.classes[key].extra

\* two stores were compared of which one has a class and the other an object
\* of a common class that its counterpart lacks
C17_Witness ==
    /\ last.op = "diff" /\ ~last.err
    /\ last.args.ab.extra = {TxtV("Fuel")}
    /\ last.args.ab.missing = {}
    /\ last.args.ab.classes[TxtV("Generator")].missing = {TxtV("G2")}
    /\ last.args.ba.classes[TxtV("Generator")].extra = {TxtV("G2")}
    /\ last.args.ab.classes[TxtV("Generator")].extra = {}

\* the call was made with a name that an object of its class already had
NameExisted ==
    \E i \in DOMAIN last.before["object"].rows :
        \E j \in DOMAIN last.before["class"].rows :
            /\ last.before["class"].rows[j]["name"] = TxtV(last.args.cls)
            /\ last.before["object"].rows[i]["class_id"] = last.before["class"].rows[j]["class_id"]
            /\ last.before["object"].rows[i]["name"] = TxtV(last.args.name)

\* C18: whatever new and copy calls were made on a store where (class_id, name)
\* is unique among objects, no two object rows have the same class_id and name;
\* and a new or copy call whose name an object of the class already had raised
\* and left the object, category and membership tables as they were.
C18_UniqueNames ==
    /\ \A i \in DOMAIN dbcon.tabs["object"].rows :
        \A j \in DOMAIN dbcon.tabs["object"].rows :
            (/\ dbcon.tabs["object"].rows[i]["class_id"] = dbcon.tabs["object"].rows[j]["class_id"]
             /\ dbcon.tabs["object"].rows[i]["name"] = dbcon.tabs["object"].rows[j]["name"])
            => i = j
    /\ (last.op \in {"new", "copy"} /\ NameExisted) =>
        /\ last.err
        /\ \A t \in {"object", "category", "membership"} : dbcon.tabs[t] = last.before[t]

\* after a first call, a copy to the name G2 that a Generator already had was
\* refused in a store of five or more objects
C18_Witness ==
    /\ nops = 2
    /\ last.op = "copy" /\ last.err /\ last.args.name = "G2"
    /\ NameExisted
    /\ Len(dbcon.tabs["object"].rows) >= 5
    /\ dbcon.tabs["object"] = last.before["object"]

\* the object_id of the object a hierarchy names, read from the tables
ObjectIdsNamed(tabs, hier) ==
    {tabs["object"].rows[i]["object_id"] :
        i \in {k \in DOMAIN tabs["object"].rows :
                /\ tabs["object"].rows[k]["name"] = TxtV(hier[2])
                /\ \E j \in DOMAIN tabs["class"].rows :
                    /\ tabs["class"].rows[j]["name"] = TxtV(hier[1])
                    /\ tabs["class"].rows[j]["class_id"] = tabs["object"].rows[k]["class_id"]}}

\* the data rows of a property of an object under a tag: the data of a
\* membership of the object and of a property of that name, whose membership
\* has the tag object for parent or that a tag row ties to the tag object
DataMatching(tabs, self, name, tag) ==
    {i \in DOMAIN tabs["data"].rows :
        /\ \E m \in DOMAIN tabs["membership"].rows :
            /\ tabs["membership"].rows[m]["membership_id"] = tabs["data"].rows[i]["membership_id"]
            /\ tabs["membership"].rows[m]["child_object_id"] \in ObjectIdsNamed(tabs, self)
            /\ \/ tabs["membership"].rows[m]["parent_object_id"] \in ObjectIdsNamed(tabs, tag)
               \/ \E t \in DOMAIN tabs["tag"].rows :
                    /\ tabs["tag"].rows[t]["data_id"] = tabs["data"].rows[i]["data_id"]
                    /\ tabs["tag"].rows[t]["object_id"] \in ObjectIdsNamed(tabs, tag)
        /\ \E p \in DOMAIN tabs["property"].rows :
            /\ tabs["property"].rows[p]["property_id"] = tabs["data"].rows[i]["property_id"]
            /\ tabs["property"].rows[p]["name"] = TxtV(name)}

\* the data_id values of the data rows of a store
DataIdsIn(tabs) == {tabs["data"].rows[i]["data_id"] : i \in DOMAIN tabs["data"].rows}

\* C19: after delete_property(name, tag) returned, no data row of the object
\* matches (name, tag), no text, tag or band row has the data_id of a data row
\* the call deleted, and get_property(name, tag) can only return None.
C19_DeleteFanOut ==
    (last.op = "delete_property" /\ ~last.err) =>
        /\ DataMatching(dbcon.tabs, last.args.self, last.args.name, last.args.tag) = {}
        /\ \A t \in {"text", "tag", "band"} :
            \A i \in DOMAIN dbcon.tabs[t].rows :
                dbcon.tabs[t].rows[i]["data_id"] \notin DataIdsIn(last.before) \ DataIdsIn(dbcon.tabs)
        /\ GetPropertyOf(dbcon, coad, last.args.self, last.args.name, last.args.tag) = {PyNone}

\* delete_property returned after deleting a data row that had a tag row and a
\* band row
C19_Witness ==
    /\ last.op = "delete_property" /\ ~last.err
    /\ \E d \in DataIdsIn(last.before) \ DataIdsIn(dbcon.tabs) :
        /\ \E i \in DOMAIN last.before["tag"].rows : last.before["tag"].rows[i]["data_id"] = d
        /\ \E i \in DOMAIN last.before["band"].rows : last.before["band"].rows[i]["data_id"] = d
    /\ DataMatching(last.before, last.args.self, last.args.name, last.args.tag) # {}

\* the paths a lookup of the object id written `key` finds in the tables: the
\* names of the class and of the object, for the object rows of that id
FreshPaths(tabs, key) ==
    {<<tabs["class"].rows[ij[2]]["name"][2], tabs["object"].rows[ij[1]]["name"][2]>> :
        ij \in {p \in (DOMAIN tabs["object"].rows) \X (DOMAIN tabs["class"].rows) :
            /\ tabs["object"].rows[p[1]]["object_id"] # NULL
            /\ PyStr(tabs["object"].rows[p[1]]["object_id"][2]) = key
            /\ tabs["class"].rows[p[2]]["class_id"] = tabs["object"].rows[p[1]]["class_id"]}}

\* every cached path is the one path the tables hold for its object id, and a
\* path just returned is the one the tables hold
CacheIsFresh ==
    /\ \A k \in DOMAIN coad.cache : FreshPaths(dbcon.tabs, k) = {coad.cache[k]}
    /\ (last.op = "get_hierarchy" /\ ~last.err) =>
            FreshPaths(dbcon.tabs, PyStr(last.args.object_id)) = {last.args.ret}

\* a step keeps every cached path, and the path of every object id that has one
PathsKept ==
    /\ \A k \in DOMAIN coad.cache : k \in DOMAIN coad.cache' /\ coad.cache'[k] = coad.cache[k]
    /\ \A id \in ObjectIds :
        FreshPaths(dbcon.tabs, PyStr(id)) # {} =>
            FreshPaths(dbcon.tabs', PyStr(id)) = FreshPaths(dbcon.tabs, PyStr(id))

\* C20: in every state reached by new, copy, diff and get_hierarchy calls, each
\* entry of the hierarchy cache is the class and object name a fresh lookup of
\* its object id finds in the store, a path get_hierarchy_for_object_id returns
\* is that path, and no call changes a cached path or the path of an object id.
C20_CacheFresh == [](CacheIsFresh) /\ [][PathsKept]_vars

\* an object was copied in a store whose cache held the path of a Generator
C20_Witness ==
    /\ last.op = "copy" /\ ~last.err
    /\ \E k \in DOMAIN coad.cache : coad.cache[k][1] = "Generator"
    /\ Len(dbcon.tabs["object"].rows) > Len(last.before["object"].rows)

\* the category rows of the class of that name, in the order of their ids
CategoryRows(tabs, cname) ==
    SelectSeq(tabs["category"].rows, LAMBDA r :
        \E j \in DOMAIN tabs["class"].rows :
            /\ tabs["class"].rows[j]["name"] = TxtV(cname)
            /\ tabs["class"].rows[j]["class_id"] = r["class_id"])

\* the categories of Fuel, which starts with none, have the ranks 0, 1, ... in
\* the order they were added
FuelRanksGapless ==
    \A i \in DOMAIN CategoryRows(dbcon.tabs, "Fuel") :
        CategoryRows(dbcon.tabs, "Fuel")[i]["rank"] = TxtV(PyStr(i - 1))

\* every add_category call on Fuel leaves one category more
EveryCallAdds ==
    (last'.op = "add_category" /\ last'.args.cls = "Fuel") =>
        Len(CategoryRows(dbcon'.tabs, "Fuel")) = Len(CategoryRows(dbcon.tabs, "Fuel")) + 1

\* an add_category call on Fuel that returns appends one category to those of
\* the class, and every other call leaves them as they are
ReturningCallAdds ==
    IF last'.op = "add_category" /\ last'.args.cls = "Fuel" /\ ~last'.err
    THEN \E row \in Range(dbcon'.tabs["category"].rows) :
            /\ CategoryRows(dbcon'.tabs, "Fuel") = Append(CategoryRows(dbcon.tabs, "Fuel"), row)
            /\ row["name"] = TxtV(last'.args.name)
    ELSE CategoryRows(dbcon'.tabs, "Fuel") = CategoryRows(dbcon.tabs, "Fuel")

C22_DuplicateRejected ==
    /\ (/\ last.op = "add_category"
         /\ \E i \in DOMAIN CategoryRows(last.before, last.args.cls) :
                CategoryRows(last.before, last.args.cls)[i]["name"] = TxtV(last.args.name))
        => (last.err /\ dbcon.tabs["category"] = last.before["category"])
    /\ \A i \in DOMAIN dbcon.tabs["category"].rows :
        \A j \in DOMAIN dbcon.tabs["category"].rows :
            (/\ dbcon.tabs["category"].rows[i]["class_id"] = dbcon.tabs["category"].rows[j]["class_id"]
             /\ dbcon.tabs["category"].rows[i]["name"] = dbcon.tabs["category"].rows[j]["name"])
            => i = j

\* the class_id of the object a hierarchy names, read from the tables
ClassIdsNamed(tabs, hier) ==
    {tabs["class"].rows[j]["class_id"] :
        j \in {k \in DOMAIN tabs["class"].rows : tabs["class"].rows[k]["name"] = TxtV(hier[1])}}

\* the class of the tag declares the named property for the class of the
\* object: a collection from the one class to the other has a property of
\* that name
DeclaresNamed(tabs, self, name, tag) ==
    \E i \in DOMAIN tabs["collection"].rows :
        /\ tabs["collection"].rows[i]["parent_class_id"] \in ClassIdsNamed(tabs, tag)
        /\ tabs["collection"].rows[i]["child_class_id"] \in ClassIdsNamed(tabs, self)
        /\ \E p \in DOMAIN tabs["property"].rows :
            /\ tabs["property"].rows[p]["collection_id"] = tabs["collection"].rows[i]["collection_id"]
            /\ tabs["property"].rows[p]["name"] = TxtV(name)

\* C23: a set_property call whose tag object exists took the native algorithm
\* if and only if the tag's class declares the named property for the object's
\* class, and the tag-override algorithm in every other case.
C23_AlgorithmChoice ==
    (last.op = "set_property" /\ last.path # "lookup") =>
        IF DeclaresNamed(last.before, last.args.self, last.args.name, last.args.tag)
        THEN last.path \in {"native", "native_insert", "native_single", "native_list"}
        ELSE last.path \in {"tag_overwrite", "tag_insert"}

\* the stored code of a display value under an input_mask
MaskCodes(mask, v) ==
    {TxtV(SplitMask(mask[2])[2 * i - 1]) :
        i \in {k \in 1..(Len(SplitMask(mask[2])) \div 2) :
                TxtV(StripQuotes(SplitMask(mask[2])[2 * k])) = v}}

\* the input_mask of the property that the native case of the last call used
NativeMask ==
    LET me == GetByHierarchy(last.before, last.args.self).meta
        tg == GetByHierarchy(last.before, last.args.tag).meta
        vp == ValidProperties(last.before, me["class_id"])
        cn == ClassNameOf(last.before, tg["class_id"])
    IN  PropertyRow(last.before, PropertyId(vp, cn, last.args.name))["input_mask"]

\* the last call was a native overwrite of k > 1 Data rows by a list of k
\* values for a property with an input_mask, and some value is not in the mask
ListOverwriteFailed ==
    /\ last.op = "set_property" /\ last.path = "native_list"
    /\ Len(NativeDataBefore) > 1
    /\ IsList(last.args.value) /\ Len(last.args.value[2]) = Len(NativeDataBefore)
    /\ Truthy(NativeMask)
    /\ \E i \in DOMAIN last.args.value[2] : last.args.value[2][i] \notin DisplayValues(NativeMask)

\* the first position of the list whose value is not in the mask
FailedAt ==
    CHOOSE i \in DOMAIN last.args.value[2] :
        /\ last.args.value[2][i] \notin DisplayValues(NativeMask)
        /\ \A k \in 1..(i - 1) : last.args.value[2][k] \in DisplayValues(NativeMask)

\* C24: when a native list overwrite over k > 1 Data rows fails at position i
\* because the value at i is not in the input_mask, the call raises, the i-1
\* Data rows before that position hold the codes of the new values and are
\* committed, and every other Data row is as it was.
C24_PartialOverwrite ==
    ListOverwriteFailed =>
        /\ last.err
        /\ Len(last.written) = FailedAt - 1
        /\ \A k \in DOMAIN last.written :
            /\ \E r \in Range(NativeDataBefore) : r["data_id"] = last.written[k]
            /\ \A j \in DOMAIN last.written : last.written[j] = last.written[k] => j = k
        /\ Len(dbcon.tabs["data"].rows) = Len(last.before["data"].rows)
        /\ \A n \in DOMAIN dbcon.tabs["data"].rows :
            IF \E k \in DOMAIN last.written :
                    last.written[k] = dbcon.tabs["data"].rows[n]["data_id"]
            THEN \E k \in DOMAIN last.written :
                    /\ last.written[k] = dbcon.tabs["data"].rows[n]["data_id"]
                    /\ dbcon.tabs["data"].rows[n]["value"] \in MaskCodes(NativeMask, last.args.value[2][k])
                    /\ dbcon.tabs["data"].rows[n]
                        = [last.before["data"].rows[n] EXCEPT
                                !["value"] = dbcon.tabs["data"].rows[n]["value"]]
            ELSE dbcon.tabs["data"].rows[n] = last.before["data"].rows[n]
        /\ (FailedAt > 1 => ~dbcon.pending)

\* the list <<Off, 7>> was given for the two Data rows of Mode: the first row
\* changed from On to Off, the second kept its value
C24_Witness ==
    /\ ListOverwriteFailed /\ last.err
    /\ last.args.value = PyList(<<TxtV("Off"), IntV(7)>>)
    /\ Len(last.written) = 1
    /\ \E n \in DOMAIN dbcon.tabs["data"].rows :
        /\ dbcon.tabs["data"].rows[n]["data_id"] = last.written[1]
        /\ last.before["data"].rows[n]["value"] = TxtV("1")
        /\ dbcon.tabs["data"].rows[n]["value"] = TxtV("0")

\* C25: after delete_property(name, tag=T) returned, get_property(name, T2) on
\* the same object gives, for every other object T2, what it gave before the
\* call.
C25_DeleteFrame ==
    (last.op = "delete_property" /\ ~last.err) =>
        \A T2 \in UNION {Hierarchies(last.before, cn) :
                            cn \in {"System", "Generator", "Scenario", "Region"}} :
            T2 # last.args.tag =>
                GetPropertyOf(dbcon, coad, last.args.self, last.args.name, T2)
                    = GetPropertyOf([dbcon EXCEPT !.tabs = last.before], coad,
                                    last.args.self, last.args.name, T2)

\* the number of elements of a value get_property returns
ElementCount(v) == IF v = PyNone THEN 0 ELSE IF IsList(v) THEN Len(v[2]) ELSE 1

\* C26: whatever get_property(name, tag) returns for an object has exactly one
\* element per Data row that matches (object, property name, owner), however
\* many Tag, Text or Band rows the Data row has.
C26_OnePerDataRow ==
    phase = "open" =>
        \A self \in Selves, name \in Names, tag \in Tags :
            \A v \in GetPropertyOf(dbcon, coad, self, name, tag) :
                ElementCount(v) = Cardinality(DataMatching(dbcon.tabs, self, name, tag))

\* C27: in every state reached by set_children, new, copy, set_property and
\* delete_property calls, the membership_id of every Data row is the
\* membership_id of a Membership row.
C27_DataHasMembership ==
    phase = "open" =>
        \A i \in DOMAIN dbcon.tabs["data"].rows :
            \E m \in DOMAIN dbcon.tabs["membership"].rows :
                dbcon.tabs["membership"].rows[m]["membership_id"]
                    = dbcon.tabs["data"].rows[i]["membership_id"]

\* the data_id values of the Data rows of a property of an object: those of a
\* membership of the object and of a property of that name
DataIdsOf(tabs, self, name) ==
    {tabs["data"].rows[i]["data_id"] :
        i \in {n \in DOMAIN tabs["data"].rows :
            /\ \E m \in DOMAIN tabs["membership"].rows :
                /\ tabs["membership"].rows[m]["membership_id"] = tabs["data"].rows[n]["membership_id"]
                /\ tabs["membership"].rows[m]["child_object_id"] \in ObjectIdsNamed(tabs, self)
            /\ \E p \in DOMAIN tabs["property"].rows :
                /\ tabs["property"].rows[p]["property_id"] = tabs["data"].rows[n]["property_id"]
                /\ tabs["property"].rows[p]["name"] = TxtV(name)}}

\* the Tag rows that tie a Data row to the object a hierarchy names
TagRowsFor(tabs, data_id, tag) ==
    {t \in DOMAIN tabs["tag"].rows :
        /\ tabs["tag"].rows[t]["data_id"] = data_id
        /\ tabs["tag"].rows[t]["object_id"] \in ObjectIdsNamed(tabs, tag)}

\* after tag_property returned, every Data row of the property has one Tag row
\* for the tag object
OneTagEach ==
    (last.op = "tag_property" /\ ~last.err) =>
        \A d \in DataIdsOf(dbcon.tabs, last.args.self, last.args.name) :
            Cardinality(TagRowsFor(dbcon.tabs, d, last.args.tag)) = 1

\* a tag_property call that repeats the call before it leaves the tag table as
\* it is
RepeatTagsNothing ==
    (/\ last.op = "tag_property" /\ ~last.err
     /\ last'.op = "tag_property" /\ ~last'.err
     /\ last'.args = last.args) =>
        dbcon'.tabs["tag"] = dbcon.tabs["tag"]

\* C28: tag_property(name, tag) called again with the same arguments inserts no
\* Tag row, and after a call each Data row of (object, name) has exactly one
\* Tag row for the tag object.
C28_TagIdempotent == [](OneTagEach) /\ [][RepeatTagsNothing]_vars

\* tag_property was called for a property whose two Data rows the call before
\* had tagged with the same object, and inserted nothing
C28_Witness ==
    /\ nops = 2
    /\ last.op = "tag_property" /\ ~last.err
    /\ Cardinality(DataIdsOf(dbcon.tabs, last.args.self, last.args.name)) = 2
    /\ \A d \in DataIdsOf(last.before, last.args.self, last.args.name) :
            Cardinality(TagRowsFor(last.before, d, last.args.tag)) = 1
    /\ dbcon.tabs["tag"] = last.before["tag"]
    /\ Len(dbcon.tabs["tag"].rows) = 3

\* C29: diff_db against another store ends without error, reports every table
\* that only the first store has as removed and every table that only the
\* second has as added, and compares the rows of exactly the tables that both
\* stores have.
C29_DiffDbCompletes ==
    last.op = "diff_db" =>
        /\ ~last.err
        /\ last.args.removed = DOMAIN dbcon.tabs \ DOMAIN dbre.tabs
        /\ last.args.added = DOMAIN dbre.tabs \ DOMAIN dbcon.tabs
        /\ last.args.compared = DOMAIN dbcon.tabs \cap DOMAIN dbre.tabs

\* C30: a load that has read every record of its stream without error returns
\* a store, whatever tables the stream has.
C30_LoadCompletes == ~(phase = "failed" /\ xml.recs = <<>>)

====
